---- MODULE Spec2Model ----
(***************************************************************************)
(* A model of the ephemeral event ring of rely-eventStore.                 *)
(*                                                                         *)
(* AtomicCircularBuffer2 (atomiccircularbuffer2.go) is modelled at the     *)
(* granularity of its shared-memory accesses: every atomic.Load/Store/Add/ *)
(* CompareAndSwap is one step, and the plain struct copy                   *)
(* `cb.buffer[head] = *evt` is one step per field, in either order, since  *)
(* nothing orders it against the readers of the slot.                      *)
(*                                                                         *)
(* Records are those of createTestEvent("id-k", k): model id k+1 stands    *)
(* for the identifier "id-k" and carries kind k; id 0 stands for the empty *)
(* identifier of the zero-value nostr.Event of a slot never written.  The  *)
(* Tags field is a slice: a record holds the address of its backing array  *)
(* (0 for the nil slice) and tagval holds what is stored at each address.  *)
(***************************************************************************)
EXTENDS Integers, Sequences, FiniteSets, TLC

\* Capacity handed to NewAtomicCircularBuffer2.
Size == 2

\* Total number of SaveEvent calls made over a run.
MaxSaves == 4

\* Number of goroutines calling SaveEvent.
NumWriters == 2

Writers == 1..NumWriters

Slots == 0..(Size - 1)

\* The fields of nostr.Event the model keeps.
Fields == {"id", "kind", "tags"}

\* The zero value of nostr.Event: what make([]nostr.Event, capacity) puts in every slot.
ZeroEvent == [id |-> 0, kind |-> 0, tags |-> 0]

\* createTestEvent(fmt.Sprintf("id-%d", i-1), i-1): each call allocates its own
\* Tags, here at address i.
Rec(i) == [id |-> i, kind |-> i - 1, tags |-> i]

\* The value of the tag {"e", "test-tag"} that createTestEvent gives a record.
TestTag == "test-tag"

\* nostr.Filter restricted to the clauses the model keeps: Kinds and Limit.
FilterAll == [kinds |-> {}, limit |-> 0]

\* Filter{Kinds: {0..7}}: every kind a record of the run can have.
FilterAllKinds == [kinds |-> 0..(MaxSaves - 1), limit |-> 0]

\* Filter{Limit: 1}
FilterLimitOne == [kinds |-> {}, limit |-> 1]

\* The filters of the concurrent queries.
Filters == {FilterAll, FilterAllKinds, FilterLimitOne}

\* The filters of the queries made one at a time: any set of kinds, any limit
\* up to one more than the capacity.
FiltersSeq == [kinds : SUBSET (0..(MaxSaves - 1)), limit : 0..(Size + 1)]

VARIABLES
    buffer,   \* cb.buffer: slot -> record
    head,     \* cb.head
    count,    \* cb.count
    nextId,   \* number of SaveEvent calls made so far, plus one
    wpc,      \* writer -> position in SaveEvent
    whead,    \* writer -> local head
    wevt,     \* writer -> *evt
    wdone,    \* writer -> fields of the slot already copied
    wcount,   \* writer -> local count (result of AddUint64)
    qpc,      \* reader's position in QueryEvents
    qfilter,  \* reader's filter
    qhead,    \* reader's local head
    qcount,   \* reader's local count
    qi,       \* reader's loop index i
    qres,     \* reader's result: the slots its pointers refer to
    qquiet,   \* no SaveEvent was in progress at any moment of the current query
    size,     \* cb.size
    maxLimit, \* cb.MaxLimit
    cap,      \* the capacity NewAtomicCircularBuffer2 was called with
    panicked, \* a call has panicked: the process is gone
    wret,     \* what the SaveEvent call that returned last returned
    qctx,     \* reader's ctx: "live", or "canceled" before the call was made
    hptr,     \* the result the caller holds: the slots its pointers refer to
    hval,     \* the records the caller found behind them when the call returned
    herr,     \* the error returned with it
    hfilter,  \* the filter of that call
    hsaved,   \* the number of SaveEvent calls made before that call returned
    tagval,   \* address of a Tags backing array -> the tag value stored there
    pevt,     \* eventMatchesFilter: the record *evt
    pfilter,  \* eventMatchesFilter: the filter
    porder,   \* eventMatchesFilter: the order in which range visits filter.Tags
    pres,     \* eventMatchesFilter: "none" before the call, then what it returned
    db,       \* the durable store: the records it holds, in the order they came
    dbcall,   \* the method of db the last hook call used to store: "none" if it used none
    dberr,    \* what that method returned
    kevt,     \* the event the last Save call was given (ZeroEvent after a Query call)
    kret,     \* the error the last Save call returned
    kfilters, \* the filters the last Query call was given
    kctx,     \* its context
    kres,     \* the records it returned
    kerr,     \* the error it returned
    mbuffer,  \* CircularBuffer: cb.buffer
    mhead,    \* cb.head
    mtail,    \* cb.tail
    mcount,   \* cb.count
    mlock,    \* the goroutine that holds cb's mutex: <<>> when it is free
    mnext,    \* number of SaveEvent calls that have taken cb's mutex, plus one
    mwpc,     \* writer -> position in CircularBuffer.SaveEvent
    mwevt,    \* writer -> *evt
    gpc,      \* query -> position of the goroutine QueryEvents started
    gfilter,  \* query -> filter
    gctx,     \* query -> state of ctx
    gmatch,   \* query -> matchingEvents
    gi,       \* query -> number of records sent on ch
    grecv,    \* query -> the records the consumer has received from ch
    tail,     \* AtomicCircularBuffer: cb.tail
    wtail     \* writer -> the value of cb.tail it loaded

\* eventMatchesFilter's arguments and result.
pvars == <<pevt, pfilter, porder, pres>>

\* The durable store and the last call of a hook of main.go.
kvars == <<db, dbcall, dberr, kevt, kret, kfilters, kctx, kres, kerr>>

\* The mutex-guarded CircularBuffer, its callers and its query goroutines.
mvars == <<mbuffer, mhead, mtail, mcount, mlock, mnext, mwpc, mwevt,
           gpc, gfilter, gctx, gmatch, gi, grecv>>

\* What AtomicCircularBuffer, the variant with a tail word, has beyond the
\* fields of AtomicCircularBuffer2.
tvars == <<tail, wtail>>

\* The state of the programs other than AtomicCircularBuffer2.
ovars == <<pvars, kvars, mvars, tvars>>

vars == <<buffer, head, count, nextId, wpc, whead, wevt, wdone, wcount,
          qpc, qfilter, qhead, qcount, qi, qres, qquiet,
          size, maxLimit, cap, panicked, wret, qctx,
          hptr, hval, herr, hfilter, hsaved, tagval, ovars>>

wvars == <<wpc, whead, wevt, wdone, wcount, wret>>

qvars == <<qpc, qfilter, qhead, qcount, qi, qres, qquiet, qctx>>

\* The fields of the store that only construction and Init set.
cvars == <<size, maxLimit, cap, panicked>>

\* What the caller of the last query holds.
hvars == <<hptr, hval, herr, hfilter, hsaved>>

\* What the calls of SaveEvent and the scan of QueryEvents leave alone.
evars == <<cvars, hvars, tagval, ovars>>

----------------------------------------------------------------------------
(* The arguments of eventMatchesFilter.  A string is a sequence of        *)
(* characters; a record carries ID, PubKey, Kind, Tags (a sequence of     *)
(* tags, each a sequence of strings) and CreatedAt; a filter carries the  *)
(* sets IDs, Authors and Kinds, the mapping Tags from tag names to sets   *)
(* of values, and Since and Until, each the empty set (nil) or the set of *)
(* its one timestamp.                                                     *)

\* The length below which an allowed value is matched as a prefix.
IdLen == 64

\* The string of n characters c.
Rep(c, n) == [i \in 1..n |-> c]

\* Identifiers and keys of records: short ones as the tests build them, one of
\* the canonical length and one longer.
FieldStrings == {<<"a", "b">>, <<"b", "a">>, Rep("a", IdLen), Rep("a", IdLen + 1)}

\* Allowed values of a filter: the empty string, one character, and strings
\* just below, at and above the canonical length.
ValueStrings == {<<>>, <<"a">>, Rep("a", IdLen - 1), Rep("a", IdLen), Rep("a", IdLen + 1)}

\* The Tags of records: none, a tag with a name only, one tag, two tags.
TagLists == {<<>>, <<<<"e">>>>, <<<<"e", "x">>>>, <<<<"p", "x">>, <<"e", "y">>>>}

\* The Tags of filters, a name with an empty list of values among them.
TagMaps ==
    {<<>>,
     [n \in {"e"} |-> {"x"}],
     [n \in {"e"} |-> {}],
     [n \in {"e"} |-> {"x", "y"}],
     [n \in {"e", "p"} |-> IF n = "e" THEN {"x", "y"} ELSE {"x"}],
     [n \in {"e", "p"} |-> IF n = "e" THEN {"z"} ELSE {}]}

\* The records eventMatchesFilter is given.
Events ==
    [ID : FieldStrings, PubKey : {Rep("a", IdLen), Rep("a", IdLen + 1)}, Kind : {0, 1},
     Tags : TagLists, CreatedAt : 0..2]

\* The filters eventMatchesFilter is given.
FullFilters ==
    [IDs : {{}, {<<"a">>, Rep("a", IdLen + 1)}} \cup {{v} : v \in ValueStrings},
     Authors : {{}, {<<"a">>}, {Rep("a", IdLen)}},
     Kinds : {{}, {0}, {1}},
     Tags : TagMaps,
     Since : {{}, {1}},
     Until : {{}, {0}, {1}}]

\* nostr.Filter{}
EmptyFilter ==
    [IDs |-> {}, Authors |-> {}, Kinds |-> {}, Tags |-> <<>>, Since |-> {}, Until |-> {}]

\* The orders in which range can visit the names of a tag mapping.
Orders(tags) ==
    {o \in [1..Cardinality(DOMAIN tags) -> DOMAIN tags] :
        \A i, j \in DOMAIN o : i # j => o[i] # o[j]}

\* No call of eventMatchesFilter is being looked at.
PredicateIdle ==
    /\ pevt = [ID |-> <<>>, PubKey |-> <<>>, Kind |-> 0, Tags |-> <<>>, CreatedAt |-> 0]
    /\ pfilter = EmptyFilter
    /\ porder = <<>>
    /\ pres = "none"

\* An empty durable store, and no hook called yet.
HooksIdle ==
    /\ db = <<>>
    /\ dbcall = "none"
    /\ dberr = "none"
    /\ kevt = ZeroEvent
    /\ kret = "none"
    /\ kfilters = <<>>
    /\ kctx = "live"
    /\ kres = <<>>
    /\ kerr = "none"

\* The QueryEvents calls made on the CircularBuffer at a time.
Queries == {"q1", "q2"}

\* NewCircularBuffer(Size), no call made yet.
NewCircularBuffer ==
    /\ mbuffer = [s \in Slots |-> ZeroEvent]
    /\ mhead = 0
    /\ mtail = 0
    /\ mcount = 0
    /\ mlock = <<>>
    /\ mnext = 1
    /\ mwpc = [w \in Writers |-> "idle"]
    /\ mwevt = [w \in Writers |-> ZeroEvent]
    /\ gpc = [q \in Queries |-> "idle"]
    /\ gfilter = [q \in Queries |-> FilterAll]
    /\ gctx = [q \in Queries |-> "live"]
    /\ gmatch = [q \in Queries |-> <<>>]
    /\ gi = [q \in Queries |-> 0]
    /\ grecv = [q \in Queries |-> <<>>]

\* NewAtomicCircularBuffer leaves tail at its zero value.
TailZero ==
    /\ tail = 0
    /\ wtail = [w \in Writers |-> 0]

\* The other programs are not running.
OthersIdle == PredicateIdle /\ HooksIdle /\ NewCircularBuffer /\ TailZero

----------------------------------------------------------------------------

Min(a, b) == IF a < b THEN a ELSE b

\* No SaveEvent call is in progress.
WritersIdle == \A w \in Writers : wpc[w] = "idle"

\* No call at all is in progress.
Quiescent == WritersIdle /\ qpc = "idle"

\* The state NewAtomicCircularBuffer2(c) leaves, no call made yet.  For c < 0
\* make([]nostr.Event, c) panics and no store is handed back.
NewAtomicCircularBuffer2(c) ==
    /\ buffer = [s \in 0..(c - 1) |-> ZeroEvent]
    /\ head = 0
    /\ count = 0
    /\ nextId = 1
    /\ wpc = [w \in Writers |-> "idle"]
    /\ whead = [w \in Writers |-> 0]
    /\ wevt = [w \in Writers |-> ZeroEvent]
    /\ wdone = [w \in Writers |-> {}]
    /\ wcount = [w \in Writers |-> 0]
    /\ qpc = "idle"
    /\ qfilter = FilterAll
    /\ qhead = 0
    /\ qcount = 0
    /\ qi = 0
    /\ qres = <<>>
    /\ qquiet = FALSE
    /\ size = IF c < 0 THEN 0 ELSE c
    /\ maxLimit = c
    /\ cap = c
    /\ panicked = (c < 0)
    /\ wret = "none"
    /\ qctx = "live"
    /\ hptr = <<>>
    /\ hval = <<>>
    /\ herr = "none"
    /\ hfilter = FilterAll
    /\ hsaved = 0
    /\ tagval = [a \in 1..MaxSaves |-> TestTag]

\* NewAtomicCircularBuffer2(Size), no call made yet.
Init == NewAtomicCircularBuffer2(Size) /\ OthersIdle

----------------------------------------------------------------------------
(* SaveEvent *)

\* A call that counts its record as soon as it has its slot index, before the
\* copy.
SaveLoadHeadCounting(w) ==
    /\ wpc[w] = "idle"
    /\ nextId <= MaxSaves
    /\ nextId' = nextId + 1
    /\ wevt' = [wevt EXCEPT ![w] = Rec(nextId)]
    /\ whead' = [whead EXCEPT ![w] = head]
    /\ wdone' = [wdone EXCEPT ![w] = {}]
    /\ wpc' = [wpc EXCEPT ![w] = "write"]
    /\ count' = count + 1
    /\ qquiet' = FALSE
    /\ UNCHANGED <<buffer, head, wcount, wret, qpc, qfilter, qhead, qcount, qi, qres, qctx>>
    /\ UNCHANGED evars

\* The call with a non-nil evt, up to head := atomic.LoadUint64(&cb.head).
SaveLoadHead(w) ==
    /\ wpc[w] = "idle"
    /\ nextId <= MaxSaves
    /\ nextId' = nextId + 1
    /\ wevt' = [wevt EXCEPT ![w] = Rec(nextId)]
    /\ whead' = [whead EXCEPT ![w] = head]
    /\ wdone' = [wdone EXCEPT ![w] = {}]
    /\ wpc' = [wpc EXCEPT ![w] = "write"]
    /\ qquiet' = FALSE
    /\ UNCHANGED <<buffer, head, count, wcount, wret, qpc, qfilter, qhead, qcount, qi, qres, qctx>>
    /\ UNCHANGED evars

\* cb.buffer[head] = *evt, one field of it.
SaveWriteField(w, f) ==
    /\ wpc[w] = "write"
    /\ whead[w] \in DOMAIN buffer
    /\ f \notin wdone[w]
    /\ buffer' = [buffer EXCEPT ![whead[w]][f] = wevt[w][f]]
    /\ wdone' = [wdone EXCEPT ![w] = @ \cup {f}]
    /\ wpc' = [wpc EXCEPT ![w] = IF wdone[w] \cup {f} = Fields THEN "storeHead" ELSE "write"]
    /\ UNCHANGED <<head, count, nextId, whead, wevt, wcount, wret>>
    /\ UNCHANGED <<qvars, evars>>

\* cb.buffer[head] = *evt, the copy taken as one step.
SaveWriteSlot(w) ==
    /\ wpc[w] = "write"
    /\ whead[w] \in DOMAIN buffer
    /\ wdone[w] = {}
    /\ buffer' = [buffer EXCEPT ![whead[w]] = wevt[w]]
    /\ wdone' = [wdone EXCEPT ![w] = Fields]
    /\ wpc' = [wpc EXCEPT ![w] = "storeHead"]
    /\ UNCHANGED <<head, count, nextId, whead, wevt, wcount, wret>>
    /\ UNCHANGED <<qvars, evars>>

\* A cursor that is stored back without having been advanced.
SaveStoreHeadStuck(w) ==
    /\ wpc[w] = "storeHead"
    /\ head' = whead[w]
    /\ wpc' = [wpc EXCEPT ![w] = "addCount"]
    /\ UNCHANGED <<buffer, count, nextId, whead, wevt, wdone, wcount, wret>>
    /\ UNCHANGED <<qvars, evars>>

\* A cursor advanced without the reduction modulo the capacity.
SaveStoreHeadNoWrap(w) ==
    /\ wpc[w] = "storeHead"
    /\ head' = whead[w] + 1
    /\ wpc' = [wpc EXCEPT ![w] = "addCount"]
    /\ UNCHANGED <<buffer, count, nextId, whead, wevt, wdone, wcount, wret>>
    /\ UNCHANGED <<qvars, evars>>

\* atomic.StoreUint64(&cb.head, (head+1)%cb.size)
SaveStoreHead(w) ==
    /\ wpc[w] = "storeHead"
    /\ head' = (whead[w] + 1) % size
    /\ wpc' = [wpc EXCEPT ![w] = "addCount"]
    /\ UNCHANGED <<buffer, count, nextId, whead, wevt, wdone, wcount, wret>>
    /\ UNCHANGED <<qvars, evars>>

\* return nil, and the locals of a writer whose call has returned.
WriterReturn(w) ==
    /\ wret' = "nil"
    /\ wpc' = [wpc EXCEPT ![w] = "idle"]
    /\ whead' = [whead EXCEPT ![w] = 0]
    /\ wevt' = [wevt EXCEPT ![w] = ZeroEvent]
    /\ wdone' = [wdone EXCEPT ![w] = {}]
    /\ wcount' = [wcount EXCEPT ![w] = 0]

\* count := atomic.AddUint64(&cb.count, 1); return nil unless count > cb.size.
SaveAddCount(w) ==
    /\ wpc[w] = "addCount"
    /\ count' = count + 1
    /\ IF count + 1 > size
         THEN /\ wcount' = [wcount EXCEPT ![w] = count + 1]
              /\ wpc' = [wpc EXCEPT ![w] = "cas"]
              /\ UNCHANGED <<whead, wevt, wdone, wret>>
         ELSE WriterReturn(w)
    /\ UNCHANGED <<buffer, head, nextId>>
    /\ UNCHANGED <<qvars, evars>>

\* SaveCasCount with the compare-and-swap left out: the count is never capped.
SaveCasCountUncapped(w) ==
    /\ wpc[w] = "cas"
    /\ WriterReturn(w)
    /\ UNCHANGED <<buffer, head, count, nextId>>
    /\ UNCHANGED <<qvars, evars>>

\* A compare-and-swap in a loop: when it fails, count is loaded again and the
\* swap is tried once more.
SaveCasCountRetry(w) ==
    /\ wpc[w] = "cas"
    /\ IF count = wcount[w]
         THEN /\ count' = size
              /\ WriterReturn(w)
         ELSE /\ wcount' = [wcount EXCEPT ![w] = count]
              /\ UNCHANGED <<count, wpc, whead, wevt, wdone, wret>>
    /\ UNCHANGED <<buffer, head, nextId>>
    /\ UNCHANGED <<qvars, evars>>

\* atomic.CompareAndSwapUint64(&cb.count, count, cb.size); return nil.
SaveCasCount(w) ==
    /\ wpc[w] = "cas"
    /\ count' = IF count = wcount[w] THEN size ELSE count
    /\ WriterReturn(w)
    /\ UNCHANGED <<buffer, head, nextId>>
    /\ UNCHANGED <<qvars, evars>>

\* cb.buffer[head] = *evt on a store without slot head: the index is out of
\* range and the call panics.
SavePanic(w) ==
    /\ wpc[w] = "write"
    /\ whead[w] \notin DOMAIN buffer
    /\ panicked' = TRUE
    /\ wpc' = [wpc EXCEPT ![w] = "idle"]
    /\ UNCHANGED <<buffer, head, count, nextId, whead, wevt, wdone, wcount, wret>>
    /\ UNCHANGED <<qvars, hvars, tagval, size, maxLimit, cap, ovars>>

\* SaveEvent(nil) is called.
SaveNilCall(w) ==
    /\ wpc[w] = "idle"
    /\ wpc' = [wpc EXCEPT ![w] = "nil"]
    /\ UNCHANGED <<buffer, head, count, nextId, whead, wevt, wdone, wcount, wret>>
    /\ UNCHANGED <<qvars, evars>>

\* A nil check that lets the call go on: it counts a record and returns nil.
SaveNilReturnStores(w) ==
    /\ wpc[w] = "nil"
    /\ count' = Min(count + 1, size)
    /\ wret' = "nil"
    /\ wpc' = [wpc EXCEPT ![w] = "idle"]
    /\ UNCHANGED <<buffer, head, nextId, whead, wevt, wdone, wcount>>
    /\ UNCHANGED <<qvars, evars>>

\* if evt == nil { return errors.New("event cannot be nil") }
SaveNilReturn(w) ==
    /\ wpc[w] = "nil"
    /\ wret' = "error"
    /\ wpc' = [wpc EXCEPT ![w] = "idle"]
    /\ UNCHANGED <<buffer, head, count, nextId, whead, wevt, wdone, wcount>>
    /\ UNCHANGED <<qvars, evars>>

\* The caller of SaveEvent changes, after the call, the value of the tag of the
\* a-th record it passed: evt.Tags[0][1] = "changed".
MutateTag(a) ==
    /\ a <= nextId - 1
    /\ tagval[a] = TestTag
    /\ tagval' = [tagval EXCEPT ![a] = "changed"]
    /\ UNCHANGED <<buffer, head, count, nextId>>
    /\ UNCHANGED <<wvars, qvars, cvars, hvars, ovars>>

----------------------------------------------------------------------------
(* QueryEvents *)

\* A limit that is never applied.
LimitIgnored(filter, c) == c

\* limit := int(count); if filter.Limit > 0 && filter.Limit < limit { limit = filter.Limit }
Limit(filter, c) ==
    IF filter.limit > 0 /\ filter.limit < c THEN filter.limit ELSE c

\* TailPos with the full-store case forgotten: the scan always starts at slot 0.
TailPosAlwaysZero(h, c) == 0

\* tail := 0; if count >= cb.size { tail = head }
TailPos(h, c) == IF c >= size THEN h ELSE 0

\* A scan that runs from the newest record back to the oldest.
PosBackward(h, c, i) == (TailPos(h, c) + (Min(c, size) - 1 - i)) % size

\* pos := (tail + i) % cb.size
Pos(h, c, i) == (TailPos(h, c) + i) % size

\* A predicate that lets every record through.
EventMatchesAnyKind(evt, filter) == TRUE

\* eventMatchesFilter, its Kinds clause.
EventMatchesFilter(evt, filter) ==
    filter.kinds = {} \/ evt.kind \in filter.kinds

\* The call with filter f and a context in state c, up to
\* head := atomic.LoadUint64(&cb.head)
QueryLoadHead(f, c) ==
    /\ qpc = "idle"
    /\ qfilter' = f
    /\ qctx' = c
    /\ qhead' = head
    /\ qpc' = "loadCount"
    /\ qquiet' = WritersIdle
    /\ UNCHANGED <<qcount, qi, qres>>
    /\ UNCHANGED <<buffer, head, count, nextId>>
    /\ UNCHANGED <<wvars, evars>>

\* A reader that takes the oldest record out of the store as it loads count.
QueryLoadCountDraining ==
    /\ qpc = "loadCount"
    /\ qcount' = count
    /\ count' = IF count > 0 THEN count - 1 ELSE 0
    /\ qpc' = IF count = 0 THEN "retEmpty" ELSE "scan"
    /\ UNCHANGED <<qfilter, qhead, qi, qres, qquiet, qctx>>
    /\ UNCHANGED <<buffer, head, nextId>>
    /\ UNCHANGED <<wvars, evars>>

\* count := atomic.LoadUint64(&cb.count); if count == 0 the call is about to
\* return the empty result at once, before any look at the context.
QueryLoadCount ==
    /\ qpc = "loadCount"
    /\ qcount' = count
    /\ qpc' = IF count = 0 THEN "retEmpty" ELSE "scan"
    /\ UNCHANGED <<qfilter, qhead, qi, qres, qquiet, qctx>>
    /\ UNCHANGED <<buffer, head, count, nextId>>
    /\ UNCHANGED <<wvars, evars>>

\* One iteration of the loop: the slot at pos is read by eventMatchesFilter and,
\* on a match, a pointer to it is appended; the loop ends at the limit or at i = count.
QueryScan ==
    /\ qpc = "scan"
    /\ LET pos == Pos(qhead, qcount, qi)
           hit == EventMatchesFilter(buffer[pos], qfilter)
           res == IF hit THEN Append(qres, pos) ELSE qres
           stop == (hit /\ Len(res) >= Limit(qfilter, qcount)) \/ qi + 1 >= qcount
       IN  /\ qres' = res
           /\ qi' = IF stop THEN qi ELSE qi + 1
           /\ qpc' = IF stop THEN "ret" ELSE "scan"
    /\ UNCHANGED <<qfilter, qhead, qcount, qquiet, qctx>>
    /\ UNCHANGED <<buffer, head, count, nextId>>
    /\ UNCHANGED <<wvars, evars>>

\* The records the caller finds behind the pointers of the result.
Returned == [k \in 1..Len(qres) |-> buffer[qres[k]]]

\* The locals of the reader whose call has returned.
ReaderReturn ==
    /\ qpc' = "idle"
    /\ qfilter' = FilterAll
    /\ qctx' = "live"
    /\ qhead' = 0
    /\ qcount' = 0
    /\ qi' = 0
    /\ qres' = <<>>
    /\ qquiet' = FALSE

\* select { case <-ctx.Done(): return nil, ctx.Err(); default: return result, nil }
\* takes its first case: the scan is over and ctx.Done() is closed.
Canceled == qpc = "ret" /\ qctx # "live"

\* The call returns: []*nostr.Event{}, nil at once from an empty store;
\* otherwise nil, ctx.Err() if ctx.Done() is closed, else result, nil.
\* The caller keeps what it got, or (keep = FALSE) drops it at once.
QueryReturn(keep) ==
    /\ qpc \in {"ret", "retEmpty"}
    /\ LET canceled == Canceled
       IN  IF keep
             THEN /\ hptr' = IF canceled THEN <<>> ELSE qres
                  /\ hval' = IF canceled THEN <<>> ELSE Returned
                  /\ herr' = IF canceled THEN "canceled" ELSE "nil"
                  /\ hfilter' = qfilter
                  /\ hsaved' = nextId - 1
             ELSE UNCHANGED hvars
    /\ ReaderReturn
    /\ UNCHANGED <<buffer, head, count, nextId>>
    /\ UNCHANGED <<wvars, cvars, tagval, ovars>>

----------------------------------------------------------------------------
(* MaxLimit and Init *)

\* cb.MaxLimit = m, an assignment to the exported field.
SetMaxLimit(m) ==
    /\ m # maxLimit
    /\ maxLimit' = m
    /\ UNCHANGED <<buffer, head, count, nextId, size, cap, panicked>>
    /\ UNCHANGED <<wvars, qvars, hvars, tagval, ovars>>

\* Init(): an error for MaxLimit <= 0; the slot array is kept when its length is
\* MaxLimit and made anew, size with it, when it is not; head and count are reset.
InitCall ==
    /\ IF maxLimit <= 0
         THEN UNCHANGED <<buffer, size, head, count>>
         ELSE /\ buffer' = IF DOMAIN buffer = 0..(maxLimit - 1)
                              THEN buffer
                              ELSE [s \in 0..(maxLimit - 1) |-> ZeroEvent]
              /\ size' = IF DOMAIN buffer = 0..(maxLimit - 1) THEN size ELSE maxLimit
              /\ head' = 0
              /\ count' = 0
    /\ UNCHANGED <<nextId, maxLimit, cap, panicked>>
    /\ UNCHANGED <<wvars, qvars, hvars, tagval, ovars>>

----------------------------------------------------------------------------
(* eventMatchesFilter, all its clauses *)

\* A prefix test that forgets the canonical length.
MatchesValueAnyLength(field, v) ==
    v = field \/ (Len(field) >= Len(v) /\ SubSeq(field, 1, Len(v)) = v)

\* id == evt.ID || (len(id) < 64 && len(evt.ID) >= len(id) && evt.ID[:len(id)] == id)
MatchesValue(field, v) ==
    v = field \/ (Len(v) < IdLen /\ Len(field) >= Len(v) /\ SubSeq(field, 1, Len(v)) = v)

\* Check IDs
IDsClause(evt, filter) ==
    filter.IDs = {} \/ \E id \in filter.IDs : MatchesValue(evt.ID, id)

\* Check Authors
AuthorsClause(evt, filter) ==
    filter.Authors = {} \/ \E author \in filter.Authors : MatchesValue(evt.PubKey, author)

\* Check Kinds
KindsClause(evt, filter) ==
    filter.Kinds = {} \/ evt.Kind \in filter.Kinds

\* The inner loop of the tag check: some tag of the record has more than one
\* element, the name tagName and a value among values.
TagFound(evt, tagName, values) ==
    \E k \in 1..Len(evt.Tags) :
        /\ Len(evt.Tags[k]) > 1
        /\ evt.Tags[k][1] = tagName
        /\ evt.Tags[k][2] \in values

RECURSIVE TagsLoopFirstOnly(_, _, _)
\* A loop that returns with the outcome of the first name it visits.
TagsLoopFirstOnly(evt, tags, order) ==
    IF order = <<>> THEN TRUE
    ELSE IF tags[Head(order)] = {} THEN TagsLoopFirstOnly(evt, tags, Tail(order))
    ELSE TagFound(evt, Head(order), tags[Head(order)])

RECURSIVE TagsLoop(_, _, _)
\* Check Tags: for tagName, values := range filter.Tags, the names visited in
\* the given order; a name without values is skipped, a name not found ends
\* the call with false.
TagsLoop(evt, tags, order) ==
    IF order = <<>> THEN TRUE
    ELSE IF tags[Head(order)] = {} THEN TagsLoop(evt, tags, Tail(order))
    ELSE IF TagFound(evt, Head(order), tags[Head(order)])
         THEN TagsLoop(evt, tags, Tail(order))
         ELSE FALSE

\* A lower bound that rejects the record created at the bound itself.
SinceClauseExclusive(evt, filter) ==
    ~(filter.Since # {} /\ \E t \in filter.Since : evt.CreatedAt <= t)

\* Check Since
SinceClause(evt, filter) ==
    ~(filter.Since # {} /\ \E t \in filter.Since : evt.CreatedAt < t)

\* Check Until
UntilClause(evt, filter) ==
    ~(filter.Until # {} /\ \E t \in filter.Until : evt.CreatedAt > t)

\* eventMatchesFilter(evt, filter), range visiting filter.Tags in the given order.
eventMatchesFilter(evt, filter, order) ==
    /\ IDsClause(evt, filter)
    /\ AuthorsClause(evt, filter)
    /\ KindsClause(evt, filter)
    /\ TagsLoop(evt, filter.Tags, order)
    /\ SinceClause(evt, filter)
    /\ UntilClause(evt, filter)

\* The call eventMatchesFilter(pevt, pfilter): it returns, and assigns nothing else.
Evaluate ==
    /\ pres = "none"
    /\ pres' = IF eventMatchesFilter(pevt, pfilter, porder) THEN "true" ELSE "false"
    /\ UNCHANGED <<pevt, pfilter, porder>>
    /\ UNCHANGED <<buffer, head, count, nextId>>
    /\ UNCHANGED <<wvars, qvars, cvars, hvars, tagval, kvars, mvars, tvars>>

----------------------------------------------------------------------------
(* The hooks Save and Query of main.go.  The relay calls them with the    *)
(* events and filters of its clients; here one call runs at a time and is *)
(* one step.  db is the external sqlite3 backend: SaveEvent appends,      *)
(* ReplaceEvent puts the event in the place of those of its kind, and     *)
(* QueryEvents delivers the matching records in the order they are held.  *)

\* nostr.IsEphemeralKind
IsEphemeralKind(kind) == 20000 <= kind /\ kind < 30000

\* nostr.IsReplaceableKind
IsReplaceableKind(kind) == kind = 0 \/ kind = 3 \/ (10000 <= kind /\ kind < 20000)

\* nostr.IsAddressableKind
IsAddressableKind(kind) == 30000 <= kind /\ kind < 40000

\* The kinds of the events clients publish: a regular one, the last
\* replaceable one, and the first and the last ephemeral one.
HookKinds == {1, 19999, 20000, 29999}

\* The filters clients subscribe with: one without kinds, one with a kind and a limit.
HookFilters == {FilterAll, [kinds |-> {1, 20000}, limit |-> 1]}

\* The filter lists clients subscribe with.
HookFilterLists == {<<f>> : f \in HookFilters} \cup {<<f, g>> : f, g \in HookFilters}

\* A switch without its ephemeral case: every event goes to the durable store.
RouteAllDurable(kind) ==
    IF IsReplaceableKind(kind) \/ IsAddressableKind(kind) THEN "ReplaceEvent" ELSE "SaveEvent"

\* The switch of Save: the store, and the method of db, an event of this kind goes to.
Route(kind) ==
    IF IsEphemeralKind(kind) THEN "ephemeral"
    ELSE IF IsReplaceableKind(kind) \/ IsAddressableKind(kind) THEN "ReplaceEvent"
    ELSE "SaveEvent"

\* Save(c, e) for the next event, of kind k; fails tells whether the method of
\* db that is called returns an error (and stores nothing).
SaveHook(k, fails) ==
    /\ Quiescent
    /\ nextId <= MaxSaves
    /\ LET e == [id |-> nextId, kind |-> k, tags |-> nextId]
           to == Route(k)
       IN  /\ kevt' = e
           /\ IF to = "ephemeral"
                THEN \* ephemeralStore.SaveEvent(ctx, e), run to its end
                     /\ buffer' = [buffer EXCEPT ![head] = e]
                     /\ head' = (head + 1) % size
                     /\ count' = Min(count + 1, size)
                     /\ wret' = "nil"
                     /\ kret' = "nil"
                     /\ dbcall' = "none"
                     /\ dberr' = "none"
                     /\ db' = db
                ELSE /\ dbcall' = to
                     /\ dberr' = IF fails THEN "error" ELSE "nil"
                     /\ kret' = IF fails THEN "error" ELSE "nil"
                     /\ db' = IF fails THEN db
                              ELSE IF to = "ReplaceEvent"
                                     THEN LET Other(x) == x.kind # k
                                          IN  Append(SelectSeq(db, Other), e)
                                     ELSE Append(db, e)
                     /\ UNCHANGED <<buffer, head, count, wret>>
    /\ nextId' = nextId + 1
    /\ kfilters' = <<>>
    /\ kctx' = "live"
    /\ kres' = <<>>
    /\ kerr' = "none"
    /\ UNCHANGED <<wpc, whead, wevt, wdone, wcount>>
    /\ UNCHANGED <<qvars, cvars, hvars, tagval, pvars, mvars, tvars>>

\* db.QueryEvents(ctx, filter), its channel read to the end.
DbQueryEvents(filter) ==
    LET Match(e) == EventMatchesFilter(e, filter)
    IN  SelectSeq(db, Match)

RECURSIVE ScanFrom(_, _, _)
\* The loop of ephemeralStore.QueryEvents from index i on, run to its end: the
\* matching records from the oldest slot on, up to the limit.
ScanFrom(filter, i, acc) ==
    IF i >= count THEN acc
    ELSE LET evt == buffer[Pos(head, count, i)]
             hit == EventMatchesFilter(evt, filter)
             res == IF hit THEN Append(acc, evt) ELSE acc
         IN  IF hit /\ Len(res) >= Limit(filter, count) THEN res
             ELSE ScanFrom(filter, i + 1, res)

\* ephemeralStore.QueryEvents(ctx, filter), run to its end.
EphemeralQuery(filter, c) ==
    IF count = 0 THEN [events |-> <<>>, err |-> "nil"]
    ELSE IF c = "canceled" THEN [events |-> <<>>, err |-> "canceled"]
    ELSE [events |-> ScanFrom(filter, 0, <<>>), err |-> "nil"]

RECURSIVE AppendNew(_, _)
\* An append that leaves out the records the result already holds.
AppendNew(result, events) ==
    IF events = <<>> THEN result
    ELSE AppendNew(IF \E k \in 1..Len(result) : result[k] = Head(events)
                     THEN result ELSE Append(result, Head(events)),
                   Tail(events))

\* for _, event := range events { result = append(result, *event) }
AppendAll(result, events) == result \o events

RECURSIVE QueryLoop(_, _, _, _, _)
\* The loop of Query from the i-th filter on: the records of db, then those of
\* the ephemeral store unless it returned an error; an error of db (at the
\* filter numbered fail) ends the call.
QueryLoop(filters, c, fail, i, result) ==
    IF i > Len(filters) THEN [events |-> result, err |-> "nil"]
    ELSE IF fail = i THEN [events |-> <<>>, err |-> "error"]
    ELSE LET durable == AppendAll(result, DbQueryEvents(filters[i]))
             eph == EphemeralQuery(filters[i], c)
         IN  QueryLoop(filters, c, fail, i + 1,
                       IF eph.err # "nil" THEN durable ELSE AppendAll(durable, eph.events))

\* Query(ctx, c, filters), with a context in state c; db.QueryEvents returns an
\* error at the filter numbered fail (at none for 0).
QueryHook(filters, c, fail) ==
    /\ Quiescent
    /\ LET r == QueryLoop(filters, c, fail, 1, <<>>)
       IN  /\ kres' = r.events
           /\ kerr' = r.err
    /\ kfilters' = filters
    /\ kctx' = c
    /\ kevt' = ZeroEvent
    /\ kret' = "none"
    /\ dbcall' = "none"
    /\ dberr' = "none"
    /\ UNCHANGED <<buffer, head, count, nextId, db>>
    /\ UNCHANGED <<wvars, qvars, cvars, hvars, tagval, pvars, mvars, tvars>>

----------------------------------------------------------------------------
(* CircularBuffer, the variant guarded by one mutex.  Its QueryEvents     *)
(* starts a goroutine that copies the matches under the lock and then     *)
(* sends them on an unbuffered channel: a send completes when the         *)
(* consumer receives.                                                     *)

\* What the variables of AtomicCircularBuffer2, of eventMatchesFilter and of
\* the hooks are: untouched by the calls on the CircularBuffer.
nonmvars == <<buffer, head, count, nextId, wvars, qvars, cvars, hvars, tagval, pvars, kvars, tvars>>

\* SaveEvent(ctx, evt) is called: evt is not nil, the caller is at cb.Lock().
\* SaveEvent does not look at *evt before it holds the lock, so the records are
\* numbered in the order in which their calls take the lock.
MSaveCall(w) ==
    /\ mwpc[w] = "idle"
    /\ mnext + Cardinality({v \in Writers : mwpc[v] = "lock"}) <= MaxSaves
    /\ mwpc' = [mwpc EXCEPT ![w] = "lock"]
    /\ UNCHANGED <<mbuffer, mhead, mtail, mcount, mlock, mnext, mwevt>>
    /\ UNCHANGED <<gpc, gfilter, gctx, gmatch, gi, grecv, nonmvars>>

\* A Lock that does not wait: it returns although another goroutine holds the
\* mutex.
MSaveLockBarging(w) ==
    /\ mwpc[w] = "lock"
    /\ mlock' = <<"w", w>>
    /\ mnext' = mnext + 1
    /\ mwevt' = [mwevt EXCEPT ![w] = Rec(mnext)]
    /\ mwpc' = [mwpc EXCEPT ![w] = "write"]
    /\ UNCHANGED <<mbuffer, mhead, mtail, mcount>>
    /\ UNCHANGED <<gpc, gfilter, gctx, gmatch, gi, grecv, nonmvars>>

\* cb.Lock() returns.
MSaveLock(w) ==
    /\ mwpc[w] = "lock"
    /\ mlock = <<>>
    /\ mlock' = <<"w", w>>
    /\ mnext' = mnext + 1
    /\ mwevt' = [mwevt EXCEPT ![w] = Rec(mnext)]
    /\ mwpc' = [mwpc EXCEPT ![w] = "write"]
    /\ UNCHANGED <<mbuffer, mhead, mtail, mcount>>
    /\ UNCHANGED <<gpc, gfilter, gctx, gmatch, gi, grecv, nonmvars>>

\* cb.buffer[cb.head] = *evt; cb.head = (cb.head + 1) % cb.size
MSaveWrite(w) ==
    /\ mwpc[w] = "write"
    /\ mbuffer' = [mbuffer EXCEPT ![mhead] = mwevt[w]]
    /\ mhead' = (mhead + 1) % Size
    /\ mwpc' = [mwpc EXCEPT ![w] = "count"]
    /\ UNCHANGED <<mtail, mcount, mlock, mnext, mwevt>>
    /\ UNCHANGED <<gpc, gfilter, gctx, gmatch, gi, grecv, nonmvars>>

\* A full store whose tail stays where it is.
MSaveCountTailStuck(w) ==
    /\ mwpc[w] = "count"
    /\ mcount' = IF mcount = Size THEN mcount ELSE mcount + 1
    /\ mwpc' = [mwpc EXCEPT ![w] = "unlock"]
    /\ UNCHANGED <<mbuffer, mhead, mtail, mlock, mnext, mwevt>>
    /\ UNCHANGED <<gpc, gfilter, gctx, gmatch, gi, grecv, nonmvars>>

\* if cb.count == cb.size { cb.tail = (cb.tail + 1) % cb.size } else { cb.count++ }
MSaveCount(w) ==
    /\ mwpc[w] = "count"
    /\ IF mcount = Size
         THEN mtail' = (mtail + 1) % Size /\ mcount' = mcount
         ELSE mcount' = mcount + 1 /\ mtail' = mtail
    /\ mwpc' = [mwpc EXCEPT ![w] = "unlock"]
    /\ UNCHANGED <<mbuffer, mhead, mlock, mnext, mwevt>>
    /\ UNCHANGED <<gpc, gfilter, gctx, gmatch, gi, grecv, nonmvars>>

\* return nil, and the deferred cb.Unlock().
MSaveUnlock(w) ==
    /\ mwpc[w] = "unlock"
    /\ mlock' = <<>>
    /\ mwpc' = [mwpc EXCEPT ![w] = "idle"]
    /\ mwevt' = [mwevt EXCEPT ![w] = ZeroEvent]
    /\ UNCHANGED <<mbuffer, mhead, mtail, mcount, mnext>>
    /\ UNCHANGED <<gpc, gfilter, gctx, gmatch, gi, grecv, nonmvars>>

\* QueryEvents(ctx, filter) with a context in state c: the channel is made, the
\* goroutine started (it is at cb.Lock()) and the channel returned.
MQueryCall(q, f, c) ==
    /\ gpc[q] \in {"idle", "closed"}
    /\ gpc' = [gpc EXCEPT ![q] = "lock"]
    /\ gfilter' = [gfilter EXCEPT ![q] = f]
    /\ gctx' = [gctx EXCEPT ![q] = c]
    /\ gmatch' = [gmatch EXCEPT ![q] = <<>>]
    /\ gi' = [gi EXCEPT ![q] = 0]
    /\ grecv' = [grecv EXCEPT ![q] = <<>>]
    /\ UNCHANGED <<mbuffer, mhead, mtail, mcount, mlock, mnext, mwpc, mwevt, nonmvars>>

\* The goroutine's cb.Lock() returns.
MQueryLock(q) ==
    /\ gpc[q] = "lock"
    /\ mlock = <<>>
    /\ mlock' = <<"q", q>>
    /\ gpc' = [gpc EXCEPT ![q] = "copy"]
    /\ UNCHANGED <<mbuffer, mhead, mtail, mcount, mnext, mwpc, mwevt>>
    /\ UNCHANGED <<gfilter, gctx, gmatch, gi, grecv, nonmvars>>

RECURSIVE MScanFrom(_, _, _, _)
\* The loop of getMatchingEvents from index i and slot idx on: copies of the
\* matching records from the tail on, up to the limit.
MScanFrom(filter, i, idx, result) ==
    IF i >= mcount THEN result
    ELSE LET evt == mbuffer[idx]
             hit == EventMatchesFilter(evt, filter)
             res == IF hit THEN Append(result, evt) ELSE result
         IN  IF hit /\ Len(res) >= Limit(filter, mcount) THEN res
             ELSE MScanFrom(filter, i + 1, (idx + 1) % Size, res)

\* matchingEvents := cb.getMatchingEvents(filter), under the lock.
MQueryCopy(q) ==
    /\ gpc[q] = "copy"
    /\ gmatch' = [gmatch EXCEPT ![q] = MScanFrom(gfilter[q], 0, mtail, <<>>)]
    /\ gpc' = [gpc EXCEPT ![q] = "unlock"]
    /\ UNCHANGED <<mbuffer, mhead, mtail, mcount, mlock, mnext, mwpc, mwevt>>
    /\ UNCHANGED <<gfilter, gctx, gi, grecv, nonmvars>>

\* An Unlock put off to the end of the goroutine: it goes on to send with the
\* mutex held.
MQueryUnlockDeferred(q) ==
    /\ gpc[q] = "unlock"
    /\ gpc' = [gpc EXCEPT ![q] = "send"]
    /\ UNCHANGED <<mbuffer, mhead, mtail, mcount, mlock, mnext, mwpc, mwevt>>
    /\ UNCHANGED <<gfilter, gctx, gmatch, gi, grecv, nonmvars>>

\* cb.Unlock(), before the first send.
MQueryUnlock(q) ==
    /\ gpc[q] = "unlock"
    /\ mlock' = <<>>
    /\ gpc' = [gpc EXCEPT ![q] = "send"]
    /\ UNCHANGED <<mbuffer, mhead, mtail, mcount, mnext, mwpc, mwevt>>
    /\ UNCHANGED <<gfilter, gctx, gmatch, gi, grecv, nonmvars>>

\* select picks ch <- &matchingEvents[i]: the consumer receives the record.
MQueryDeliver(q) ==
    /\ gpc[q] = "send"
    /\ gi[q] < Len(gmatch[q])
    /\ grecv' = [grecv EXCEPT ![q] = Append(@, gmatch[q][gi[q] + 1])]
    /\ gi' = [gi EXCEPT ![q] = @ + 1]
    /\ UNCHANGED <<mbuffer, mhead, mtail, mcount, mlock, mnext, mwpc, mwevt>>
    /\ UNCHANGED <<gpc, gfilter, gctx, gmatch, nonmvars>>

\* A select without the case <-ctx.Done(): the goroutine has nothing to do but
\* send.
MQueryNeverCanceled(q) ==
    /\ FALSE
    /\ UNCHANGED vars

\* select picks <-ctx.Done(): return, and the deferred close(ch).
MQueryCanceled(q) ==
    /\ gpc[q] = "send"
    /\ gi[q] < Len(gmatch[q])
    /\ gctx[q] = "canceled"
    /\ gpc' = [gpc EXCEPT ![q] = "closed"]
    /\ UNCHANGED <<mbuffer, mhead, mtail, mcount, mlock, mnext, mwpc, mwevt>>
    /\ UNCHANGED <<gfilter, gctx, gmatch, gi, grecv, nonmvars>>

\* The loop is over: the goroutine ends, and the deferred close(ch).
MQueryClose(q) ==
    /\ gpc[q] = "send"
    /\ gi[q] = Len(gmatch[q])
    /\ gpc' = [gpc EXCEPT ![q] = "closed"]
    /\ UNCHANGED <<mbuffer, mhead, mtail, mcount, mlock, mnext, mwpc, mwevt>>
    /\ UNCHANGED <<gfilter, gctx, gmatch, gi, grecv, nonmvars>>

\* for range ch { } is over: the consumer has read the channel to its close
\* and lets go of it.
MQueryDrop(q) ==
    /\ gpc[q] = "closed"
    /\ gpc' = [gpc EXCEPT ![q] = "idle"]
    /\ gfilter' = [gfilter EXCEPT ![q] = FilterAll]
    /\ gctx' = [gctx EXCEPT ![q] = "live"]
    /\ gmatch' = [gmatch EXCEPT ![q] = <<>>]
    /\ gi' = [gi EXCEPT ![q] = 0]
    /\ grecv' = [grecv EXCEPT ![q] = <<>>]
    /\ UNCHANGED <<mbuffer, mhead, mtail, mcount, mlock, mnext, mwpc, mwevt, nonmvars>>

\* The caller of QueryEvents cancels ctx.
MCancel(q) ==
    /\ gpc[q] \in {"lock", "copy", "unlock", "send"}
    /\ gctx[q] = "live"
    /\ gctx' = [gctx EXCEPT ![q] = "canceled"]
    /\ UNCHANGED <<mbuffer, mhead, mtail, mcount, mlock, mnext, mwpc, mwevt>>
    /\ UNCHANGED <<gpc, gfilter, gmatch, gi, grecv, nonmvars>>

----------------------------------------------------------------------------
(* The atomic.Pointer variant of AtomicCircularBuffer2 listed in bench.md.  *)
(* Its slots are atomic pointers: buffer[s] is the record the pointer of   *)
(* slot s refers to, ZeroEvent standing for the nil pointer, and qres      *)
(* holds the records the returned pointers refer to.                       *)

\* head := cb.head.Load()
PtrSaveLoadHead(w) ==
    /\ wpc[w] = "idle"
    /\ nextId <= MaxSaves
    /\ nextId' = nextId + 1
    /\ wevt' = [wevt EXCEPT ![w] = Rec(nextId)]
    /\ whead' = [whead EXCEPT ![w] = head]
    /\ wpc' = [wpc EXCEPT ![w] = "store"]
    /\ qquiet' = FALSE
    /\ UNCHANGED <<buffer, head, count, wdone, wcount, wret, qpc, qfilter, qhead, qcount, qi, qres, qctx>>
    /\ UNCHANGED evars

\* cb.buffer[head].Store(evt)
PtrSaveStore(w) ==
    /\ wpc[w] = "store"
    /\ buffer' = [buffer EXCEPT ![whead[w]] = wevt[w]]
    /\ wpc' = [wpc EXCEPT ![w] = "storeHead"]
    /\ UNCHANGED <<head, count, nextId, whead, wevt, wdone, wcount, wret>>
    /\ UNCHANGED <<qvars, evars>>

\* count := cb.count.Add(1); return nil unless count > cb.size.
PtrSaveAddCount(w) ==
    /\ wpc[w] = "addCount"
    /\ count' = count + 1
    /\ IF count + 1 > size
         THEN /\ wpc' = [wpc EXCEPT ![w] = "storeCount"]
              /\ UNCHANGED <<whead, wevt, wdone, wcount, wret>>
         ELSE WriterReturn(w)
    /\ UNCHANGED <<buffer, head, nextId>>
    /\ UNCHANGED <<qvars, evars>>

\* cb.count.Store(cb.size); return nil.
PtrSaveStoreCount(w) ==
    /\ wpc[w] = "storeCount"
    /\ count' = size
    /\ WriterReturn(w)
    /\ UNCHANGED <<buffer, head, nextId>>
    /\ UNCHANGED <<qvars, evars>>

\* tail := 0; if count >= cb.size { tail = (head + 1) % cb.size }
PtrTailPos(h, c) == IF c >= size THEN (h + 1) % size ELSE 0

\* idx := (tail + i) % cb.size
PtrPos(h, c, i) == (PtrTailPos(h, c) + i) % size

\* count := cb.count.Load()
PtrQueryLoadCount(f) ==
    /\ qpc = "idle"
    /\ qfilter' = f
    /\ qcount' = count
    /\ qpc' = "loadHead"
    /\ qquiet' = WritersIdle
    /\ UNCHANGED <<qhead, qi, qres, qctx>>
    /\ UNCHANGED <<buffer, head, count, nextId>>
    /\ UNCHANGED <<wvars, evars>>

\* head := cb.head.Load(); if count == 0 { return nil, nil }
PtrQueryLoadHead ==
    /\ qpc = "loadHead"
    /\ qhead' = head
    /\ qpc' = IF qcount = 0 THEN "ret" ELSE "scan"
    /\ UNCHANGED <<qfilter, qcount, qi, qres, qquiet, qctx>>
    /\ UNCHANGED <<buffer, head, count, nextId>>
    /\ UNCHANGED <<wvars, evars>>

\* One iteration of the loop: evt := cb.buffer[idx].Load(), kept when it is not
\* nil and matches.
PtrQueryScan ==
    /\ qpc = "scan"
    /\ LET evt == buffer[PtrPos(qhead, qcount, qi)]
           hit == evt # ZeroEvent /\ EventMatchesFilter(evt, qfilter)
           res == IF hit THEN Append(qres, evt) ELSE qres
           stop == (hit /\ Len(res) >= Limit(qfilter, qcount)) \/ qi + 1 >= qcount
       IN  /\ qres' = res
           /\ qi' = IF stop THEN qi ELSE qi + 1
           /\ qpc' = IF stop THEN "ret" ELSE "scan"
    /\ UNCHANGED <<qfilter, qhead, qcount, qquiet, qctx>>
    /\ UNCHANGED <<buffer, head, count, nextId>>
    /\ UNCHANGED <<wvars, evars>>

----------------------------------------------------------------------------
(* AtomicCircularBuffer, the variant with separate head, tail and count   *)
(* words.  It shares buffer, head, count and the locals of the callers    *)
(* with the model of AtomicCircularBuffer2; qres holds the records of the *)
(* result, which this variant copies out of the ring.                     *)

\* What a SaveEvent call of AtomicCircularBuffer leaves alone, its own locals apart.
avars == <<qvars, cvars, hvars, tagval, pvars, kvars, mvars>>

\* The call with a non-nil evt, up to head := atomic.LoadUint64(&cb.head).
AcbSaveLoadHead(w) ==
    /\ wpc[w] = "idle"
    /\ nextId <= MaxSaves
    /\ nextId' = nextId + 1
    /\ wevt' = [wevt EXCEPT ![w] = Rec(nextId)]
    /\ whead' = [whead EXCEPT ![w] = head]
    /\ wpc' = [wpc EXCEPT ![w] = "storeHead"]
    /\ UNCHANGED <<buffer, head, count, tail, wtail, wdone, wcount, wret, avars>>

\* newHead := (head + 1) % cb.size; atomic.StoreUint64(&cb.head, newHead)
AcbSaveStoreHead(w) ==
    /\ wpc[w] = "storeHead"
    /\ head' = (whead[w] + 1) % size
    /\ wpc' = [wpc EXCEPT ![w] = "write"]
    /\ UNCHANGED <<buffer, count, tail, nextId, whead, wevt, wtail, wdone, wcount, wret, avars>>

\* cb.buffer[head] = *evt
AcbSaveWrite(w) ==
    /\ wpc[w] = "write"
    /\ buffer' = [buffer EXCEPT ![whead[w]] = wevt[w]]
    /\ wpc' = [wpc EXCEPT ![w] = "addCount"]
    /\ UNCHANGED <<head, count, tail, nextId, whead, wevt, wtail, wdone, wcount, wret, avars>>

\* count := atomic.AddUint64(&cb.count, 1); return nil unless count > cb.size.
AcbSaveAddCount(w) ==
    /\ wpc[w] = "addCount"
    /\ count' = count + 1
    /\ IF count + 1 > size
         THEN /\ wcount' = [wcount EXCEPT ![w] = count + 1]
              /\ wpc' = [wpc EXCEPT ![w] = "cas"]
              /\ UNCHANGED <<whead, wevt, wdone, wret>>
         ELSE WriterReturn(w)
    /\ UNCHANGED <<buffer, head, tail, nextId, wtail, avars>>

\* atomic.CompareAndSwapUint64(&cb.count, count, cb.size)
AcbSaveCasCount(w) ==
    /\ wpc[w] = "cas"
    /\ count' = IF count = wcount[w] THEN size ELSE count
    /\ wpc' = [wpc EXCEPT ![w] = "loadTail"]
    /\ UNCHANGED <<buffer, head, tail, nextId, whead, wevt, wtail, wdone, wcount, wret, avars>>

\* atomic.LoadUint64(&cb.tail), the argument of the store that follows.
AcbSaveLoadTail(w) ==
    /\ wpc[w] = "loadTail"
    /\ wtail' = [wtail EXCEPT ![w] = tail]
    /\ wpc' = [wpc EXCEPT ![w] = "storeTail"]
    /\ UNCHANGED <<buffer, head, count, tail, nextId, whead, wevt, wdone, wcount, wret, avars>>

\* atomic.StoreUint64(&cb.tail, (loaded tail + 1) % cb.size); return nil.
AcbSaveStoreTail(w) ==
    /\ wpc[w] = "storeTail"
    /\ tail' = (wtail[w] + 1) % size
    /\ wtail' = [wtail EXCEPT ![w] = 0]
    /\ WriterReturn(w)
    /\ UNCHANGED <<buffer, head, count, nextId, avars>>

RECURSIVE AcbScanFrom(_, _, _, _, _)
\* The loop of the goroutine of QueryEvents from index i and slot idx on, for
\* the count c it loaded: copies of the matching records, up to the limit.
AcbScanFrom(filter, c, i, idx, result) ==
    IF i >= c THEN result
    ELSE LET evt == buffer[idx]
             hit == EventMatchesFilter(evt, filter)
             res == IF hit THEN Append(result, evt) ELSE result
         IN  IF hit /\ Len(res) >= Limit(filter, c) THEN res
             ELSE AcbScanFrom(filter, c, i + 1, (idx + 1) % size, res)

\* QueryEvents(ctx, f), called when no SaveEvent is in progress: the goroutine
\* loads tail and count and scans the ring.
AcbQueryScan(f) ==
    /\ qpc = "idle"
    /\ WritersIdle
    /\ qfilter' = f
    /\ qhead' = tail
    /\ qcount' = count
    /\ qres' = AcbScanFrom(f, count, 0, tail, <<>>)
    /\ qpc' = "ret"
    /\ UNCHANGED <<qi, qquiet, qctx>>
    /\ UNCHANGED <<buffer, head, count, nextId, wvars, evars>>

\* The records are sent, the consumer receives them, and the channel is closed.
AcbQueryClose ==
    /\ qpc = "ret"
    /\ ReaderReturn
    /\ UNCHANGED <<buffer, head, count, nextId, wvars, evars>>

----------------------------------------------------------------------------

\* The steps of the SaveEvent calls.
NextSave ==
    \/ \E w \in Writers : SaveLoadHead(w)
    \/ \E w \in Writers, f \in Fields : SaveWriteField(w, f)
    \/ \E w \in Writers : SaveStoreHead(w)
    \/ \E w \in Writers : SaveAddCount(w)
    \/ \E w \in Writers : SaveCasCount(w)

\* The steps of the QueryEvents calls.
NextQuery ==
    \/ \E f \in Filters : QueryLoadHead(f, "live")
    \/ QueryLoadCount
    \/ QueryScan
    \/ QueryReturn(FALSE)

Next == NextSave \/ NextQuery

\* Any number of goroutines call SaveEvent and QueryEvents concurrently.
Spec == Init /\ [][Next]_vars

\* Goroutines call SaveEvent concurrently; nobody queries.
SpecSave == Init /\ [][NextSave]_vars

\* The steps of atomiccircularbuffer2.go's calls made one at a time: a call
\* starts only when no other call is in progress.
NextSeq ==
    \/ \E w \in Writers : Quiescent /\ SaveLoadHead(w)
    \/ \E w \in Writers, f \in Fields : SaveWriteField(w, f)
    \/ \E w \in Writers : SaveStoreHead(w)
    \/ \E w \in Writers : SaveAddCount(w)
    \/ \E w \in Writers : SaveCasCount(w)
    \/ \E f \in FiltersSeq : Quiescent /\ QueryLoadHead(f, "live")
    \/ QueryLoadCount
    \/ QueryScan
    \/ QueryReturn(FALSE)

\* One goroutine at a time: no two calls overlap.
SpecSeq == Init /\ [][NextSeq]_vars

\* The steps of the calls of bench.md's atomic.Pointer variant.
NextPtr ==
    \/ \E w \in Writers : PtrSaveLoadHead(w)
    \/ \E w \in Writers : PtrSaveStore(w)
    \/ \E w \in Writers : SaveStoreHead(w)
    \/ \E w \in Writers : PtrSaveAddCount(w)
    \/ \E w \in Writers : PtrSaveStoreCount(w)
    \/ \E f \in Filters : PtrQueryLoadCount(f)
    \/ PtrQueryLoadHead
    \/ PtrQueryScan
    \/ QueryReturn(FALSE)

\* bench.md's variant, its calls made concurrently.
SpecPtr == Init /\ [][NextPtr]_vars

\* The filters and contexts of the caller that keeps its results.
FiltersUse == [kinds : {{}, {1}}, limit : {0, 1}]

Contexts == {"live", "canceled"}

\* The steps of a caller that makes its calls one at a time, passes nil too,
\* cancels contexts, keeps the result of its last query and changes the tags of
\* records it has saved.
NextUse ==
    \/ \E w \in Writers : Quiescent /\ SaveLoadHead(w)
    \/ \E w \in Writers, f \in Fields : SaveWriteField(w, f)
    \/ \E w \in Writers : SaveStoreHead(w)
    \/ \E w \in Writers : SaveAddCount(w)
    \/ \E w \in Writers : SaveCasCount(w)
    \/ \E w \in Writers : Quiescent /\ SaveNilCall(w)
    \/ \E w \in Writers : SaveNilReturn(w)
    \/ \E f \in FiltersUse, c \in Contexts : Quiescent /\ QueryLoadHead(f, c)
    \/ QueryLoadCount
    \/ QueryScan
    \/ QueryReturn(TRUE)
    \/ \E a \in 1..MaxSaves : Quiescent /\ MutateTag(a)

SpecUse == Init /\ [][NextUse]_vars

\* The capacities a store is constructed with, and the values MaxLimit is given.
Capacities == (0 - 1)..Size

\* The store after construction with any capacity.
InitLife == (\E c \in Capacities : NewAtomicCircularBuffer2(c)) /\ OthersIdle

\* The steps of the calls made one at a time on a store built with any
\* capacity, Init and assignments to MaxLimit among them.
NextLife ==
    \/ \E w \in Writers : Quiescent /\ ~panicked /\ SaveLoadHead(w)
    \/ \E w \in Writers, f \in Fields : SaveWriteField(w, f)
    \/ \E w \in Writers : SavePanic(w)
    \/ \E w \in Writers : SaveStoreHead(w)
    \/ \E w \in Writers : SaveAddCount(w)
    \/ \E w \in Writers : SaveCasCount(w)
    \/ \E f \in Filters : Quiescent /\ ~panicked /\ QueryLoadHead(f, "live")
    \/ QueryLoadCount
    \/ QueryScan
    \/ QueryReturn(FALSE)
    \/ \E m \in Capacities : Quiescent /\ ~panicked /\ SetMaxLimit(m)
    \/ Quiescent /\ ~panicked /\ InitCall

SpecLife == InitLife /\ [][NextLife]_vars

\* A record and a filter are given to eventMatchesFilter.
InitMatch ==
    /\ NewAtomicCircularBuffer2(Size)
    /\ pevt \in Events
    /\ pfilter \in FullFilters
    /\ porder \in Orders(pfilter.Tags)
    /\ pres = "none"
    /\ HooksIdle
    /\ NewCircularBuffer
    /\ TailZero

NextMatch == Evaluate

\* eventMatchesFilter applied to every record and filter of the bounded sets.
SpecMatch == InitMatch /\ [][NextMatch]_vars

\* The calls the relay makes of its hooks, one at a time.
NextHooks ==
    \/ \E k \in HookKinds, fails \in BOOLEAN : SaveHook(k, fails)
    \/ \E fs \in HookFilterLists, c \in Contexts :
          \E fail \in 0..Len(fs) : QueryHook(fs, c, fail)

\* main.go: the relay with its ephemeral store and its durable store.
SpecHooks == Init /\ [][NextHooks]_vars

\* The steps of the SaveEvent call of writer w, the copy of the record one step.
WriterStep(w) ==
    \/ SaveWriteSlot(w)
    \/ SaveStoreHead(w)
    \/ SaveAddCount(w)
    \/ SaveCasCount(w)

\* The steps of the QueryEvents call in progress.
ReaderStep ==
    \/ QueryLoadCount
    \/ QueryScan
    \/ QueryReturn(FALSE)

\* Goroutines call SaveEvent and QueryEvents concurrently and run at any speed:
\* any of them may stop for good at any step.  The query is the one with the
\* longest scan, the one of the filter that matches everything.
NextWait ==
    \/ \E w \in Writers : SaveLoadHead(w)
    \/ \E w \in Writers : WriterStep(w)
    \/ QueryLoadHead(FilterAll, "live")
    \/ ReaderStep

SpecWait == Init /\ [][NextWait]_vars

\* Filter{Limit: N}: a limit that an observed count above the capacity exceeds.
FilterLimitSize == [kinds |-> {}, limit |-> Size]

\* The filters of TestConcurrentSaveAndQuery2's readers, a limit added.
FiltersLimit == {FilterLimitOne, FilterLimitSize}

\* TestConcurrentSaveAndQuery2: goroutines save while another one queries.
NextRobust ==
    \/ \E w \in Writers : SaveLoadHead(w)
    \/ \E w \in Writers : WriterStep(w)
    \/ \E f \in FiltersLimit : QueryLoadHead(f, "live")
    \/ ReaderStep

SpecRobust == Init /\ [][NextRobust]_vars

\* A capacity that the saves of a run never fill.
Roomy == MaxSaves + 1

\* The filters that every record matches and that set no limit.
FiltersAll == {FilterAll, FilterAllKinds}

\* One goroutine calls SaveEvent, one call after the other, while others call
\* QueryEvents; a query changes nothing, so that the queries of any number of
\* goroutines are those of one.  The count never passes the capacity and the
\* compare-and-swap is never reached.
NextPrefix ==
    \/ SaveLoadHead(1)
    \/ \E f \in Fields : SaveWriteField(1, f)
    \/ SaveStoreHead(1)
    \/ SaveAddCount(1)
    \/ \E f \in FiltersAll : QueryLoadHead(f, "live")
    \/ QueryLoadCount
    \/ QueryScan
    \/ QueryReturn(FALSE)

\* One goroutine calls SaveEvent, one call after the other, on a store that
\* fills up and wraps, while another calls QueryEvents.
NextOne ==
    \/ SaveLoadHead(1)
    \/ \E f \in Fields : SaveWriteField(1, f)
    \/ SaveStoreHead(1)
    \/ SaveAddCount(1)
    \/ SaveCasCount(1)
    \/ \E f \in FiltersAll : QueryLoadHead(f, "live")
    \/ QueryLoadCount
    \/ QueryScan
    \/ QueryReturn(FALSE)

SpecOne == Init /\ [][NextOne]_vars

\* NewAtomicCircularBuffer2(Roomy), no call made yet.
InitPrefix == NewAtomicCircularBuffer2(Roomy) /\ OthersIdle

\* A store that never becomes full, one writer.
SpecPrefix == InitPrefix /\ [][NextPrefix]_vars

\* The filters of the queries on the CircularBuffer.
MFilters == {FilterAll, FilterLimitOne}

\* The steps of the calls on the CircularBuffer and of its query goroutines.
NextMutex ==
    \/ \E w \in Writers : MSaveCall(w)
    \/ \E w \in Writers : MSaveLock(w)
    \/ \E w \in Writers : MSaveWrite(w)
    \/ \E w \in Writers : MSaveCount(w)
    \/ \E w \in Writers : MSaveUnlock(w)
    \/ \E q \in Queries, f \in MFilters : MQueryCall(q, f, "live")
    \/ \E q \in Queries : MQueryLock(q)
    \/ \E q \in Queries : MQueryCopy(q)
    \/ \E q \in Queries : MQueryUnlock(q)
    \/ \E q \in Queries : MQueryDeliver(q)
    \/ \E q \in Queries : MQueryCanceled(q)
    \/ \E q \in Queries : MQueryClose(q)
    \/ \E q \in Queries : MCancel(q)

\* Goroutines call SaveEvent and QueryEvents of the CircularBuffer concurrently.
SpecMutex == Init /\ [][NextMutex]_vars

\* No call is in progress on either store and no channel is open or unread.
BothIdle ==
    /\ Quiescent
    /\ \A w \in Writers : mwpc[w] = "idle"
    /\ \A q \in Queries : gpc[q] = "idle"

\* Both stores have been given the same records.
InStep == mnext = nextId

\* The filters of the queries made on both stores: no kind, one kind or two,
\* and any limit up to one more than the capacity.
FiltersPair == [kinds : {{}, {1}, {0, 2}}, limit : 0..(Size + 1)]

\* The same calls are made, one at a time, on an AtomicCircularBuffer2 and on a
\* CircularBuffer of the same capacity: each record is saved in the first and
\* then in the second; each query is made on the first, its result kept, and
\* then with the same filter on the second, whose channel is read to its close.
NextPair ==
    \/ \E w \in Writers : BothIdle /\ InStep /\ SaveLoadHead(w)
    \/ \E w \in Writers, f \in Fields : SaveWriteField(w, f)
    \/ \E w \in Writers : SaveStoreHead(w)
    \/ \E w \in Writers : SaveAddCount(w)
    \/ \E w \in Writers : SaveCasCount(w)
    \/ \E w \in Writers : BothIdle /\ ~InStep /\ MSaveCall(w)
    \/ \E w \in Writers : MSaveLock(w)
    \/ \E w \in Writers : MSaveWrite(w)
    \/ \E w \in Writers : MSaveCount(w)
    \/ \E w \in Writers : MSaveUnlock(w)
    \/ \E f \in FiltersPair : BothIdle /\ InStep /\ QueryLoadHead(f, "live")
    \/ QueryLoadCount
    \/ QueryScan
    \/ QueryReturn(TRUE)
    \/ /\ BothIdle /\ InStep
       /\ herr = "nil" /\ hsaved = nextId - 1
       /\ MQueryCall("q1", hfilter, "live")
    \/ MQueryLock("q1")
    \/ MQueryCopy("q1")
    \/ MQueryUnlock("q1")
    \/ MQueryDeliver("q1")
    \/ MQueryClose("q1")
    \/ MQueryDrop("q1")

\* The two designs, given the same sequence of calls.
SpecPair == Init /\ [][NextPair]_vars

\* The steps of the calls of AtomicCircularBuffer: SaveEvent calls that
\* overlap, and queries made while no SaveEvent is in progress.
NextTail ==
    \/ \E w \in Writers : AcbSaveLoadHead(w)
    \/ \E w \in Writers : AcbSaveStoreHead(w)
    \/ \E w \in Writers : AcbSaveWrite(w)
    \/ \E w \in Writers : AcbSaveAddCount(w)
    \/ \E w \in Writers : AcbSaveCasCount(w)
    \/ \E w \in Writers : AcbSaveLoadTail(w)
    \/ \E w \in Writers : AcbSaveStoreTail(w)
    \/ \E f \in FiltersAll : AcbQueryScan(f)
    \/ AcbQueryClose

\* AtomicCircularBuffer, its SaveEvent calls made concurrently.
SpecTail == Init /\ [][NextTail]_vars

\* The steps of SaveEvent calls and of one QueryEvents call at a time on the
\* CircularBuffer, of its consumer and of the owner of its context.
NextChan ==
    \/ \E w \in Writers : MSaveCall(w)
    \/ \E w \in Writers : MSaveLock(w)
    \/ \E w \in Writers : MSaveWrite(w)
    \/ \E w \in Writers : MSaveCount(w)
    \/ \E w \in Writers : MSaveUnlock(w)
    \/ \E f \in MFilters : MQueryCall("q1", f, "live")
    \/ MQueryLock("q1")
    \/ MQueryCopy("q1")
    \/ MQueryUnlock("q1")
    \/ MQueryDeliver("q1")
    \/ MQueryCanceled("q1")
    \/ MQueryClose("q1")
    \/ MCancel("q1")

\* The scheduler lets every goroutine that can run take its next step: a
\* SaveEvent call that holds the mutex goes on to release it, and the query
\* goroutine goes on whenever it has a step of its own.  sync.Mutex hands the
\* mutex to a goroutine that keeps waiting for it (starvation mode).  Nothing
\* makes a caller call, a consumer receive or an owner cancel.
FairChan ==
    /\ \A w \in Writers : WF_vars(MSaveWrite(w) \/ MSaveCount(w) \/ MSaveUnlock(w))
    /\ SF_vars(MQueryLock("q1"))
    /\ WF_vars(MQueryCopy("q1") \/ MQueryUnlock("q1") \/ MQueryCanceled("q1") \/ MQueryClose("q1"))

\* The CircularBuffer under fair scheduling.
SpecChan == Init /\ [][NextChan]_vars /\ FairChan

----------------------------------------------------------------------------
(* Properties *)

\* The number of SaveEvent calls made so far.
NumSaved == nextId - 1

\* The records passed to SaveEvent so far.
Saved == {Rec(i) : i \in 1..NumSaved}

\* A filter that every record matches and that sets no limit.
MatchAll(f) == f.limit = 0 /\ (f.kinds = {} \/ (0..(MaxSaves - 1)) \subseteq f.kinds)

\* All fields of r come from one record: r is a record of the run or the zero value.
Whole(r) == r = ZeroEvent \/ (r.id >= 1 /\ r = Rec(r.id))

\* A SaveEvent call holds a slot index: from its load of head to its store of head.
HoldsSlot(w) == wpc[w] \in {"write", "storeHead"}

\* The slots that hold a written record.
WrittenSlots == {s \in Slots : buffer[s] # ZeroEvent}

\* The count slots that end at the slot before head.
RunBeforeHead == {(head + Size - k) % Size : k \in 1..Min(count, Size)}

\* C1: after N+k SaveEvent calls made one after another (k >= 0), a match-all
\* query without limit returns exactly the last N records saved, oldest first.
C1_CapacityInvariant ==
    (qpc = "ret" /\ MatchAll(qfilter) /\ NumSaved >= Size)
        => Returned = [k \in 1..Size |-> Rec(NumSaved - Size + k)]

\* C1 witness: a match-all query is about to return after Size + 2 calls, the
\* store having wrapped.
C1_Witness ==
    /\ qpc = "ret"
    /\ qfilter = FilterAllKinds
    /\ NumSaved = Size + 2
    /\ Len(qres) = Size

\* C2: no two SaveEvent calls in progress at the same time hold the same slot index.
C2_AtomicReservation ==
    \A w1, w2 \in Writers :
        (w1 # w2 /\ HoldsSlot(w1) /\ HoldsSlot(w2)) => whead[w1] # whead[w2]

\* C3: after M <= N concurrent SaveEvent calls on an empty store have all
\* returned, a match-all query without limit returns each of the M records
\* exactly once.
C3_NoLostRecords ==
    (qpc = "ret" /\ qquiet /\ MatchAll(qfilter) /\ NumSaved <= Size)
        => \A i \in 1..NumSaved :
              Cardinality({k \in 1..Len(qres) : Returned[k] = Rec(i)}) = 1

\* C4: every record a query returns is a record passed to SaveEvent before; a
\* slot never written is not returned.
C4_OnlySavedRecords ==
    qpc = "ret" => \A k \in 1..Len(qres) : Returned[k] \in Saved

\* C5: the slot the filter is about to read is not half written, and no record
\* returned mixes the fields of two writes.
C5_NoTornRecord ==
    /\ (qpc = "scan" /\ qfilter.kinds # {}) => Whole(buffer[Pos(qhead, qcount, qi)])
    /\ qpc = "ret" => \A k \in 1..Len(qres) : Whole(Returned[k])

\* C6: when all SaveEvent calls have returned, count is the number of calls
\* made, capped at the capacity.
C6_FinalOccupancy ==
    WritersIdle => count = Min(NumSaved, Size)

\* C6 witness: all MaxSaves calls have returned, more than the capacity, and the
\* count is the capacity.
C6_Witness ==
    /\ WritersIdle
    /\ NumSaved = MaxSaves
    /\ NumSaved > Size
    /\ count = Size

\* C7: the count field never exceeds the capacity, in any state.
C7_CountBound == count <= Size

\* C8: when no SaveEvent is in progress, the written slots are the count slots
\* that end before head, and head = count while count < N.
C8_Contiguity ==
    WritersIdle =>
        /\ WrittenSlots = RunBeforeHead
        /\ Cardinality(WrittenSlots) = count
        /\ count < Size => head = count

\* C9: a query visits at most N slots and returns no slot twice, so at most N
\* records.
C9_BoundedScan ==
    /\ qpc = "scan" => qi < Size
    /\ qpc = "ret" =>
          /\ Len(qres) <= Size
          /\ \A j, k \in 1..Len(qres) : j # k => qres[j] # qres[k]

\* C10: in the atomic.Pointer variant too the scan of a full store starts at
\* the observed head, so that on a quiescent full store the first record a
\* match-all query returns is the oldest one still stored.
C10_TailIsHead ==
    /\ (qpc = "scan" /\ qi = 0 /\ qcount >= Size) => PtrPos(qhead, qcount, qi) = qhead
    /\ (qpc = "ret" /\ qquiet /\ MatchAll(qfilter) /\ NumSaved >= Size)
          => (Len(qres) >= 1 /\ qres[1] = Rec(NumSaved - Size + 1))

\* The records a store filled by calls made one at a time holds, oldest first.
Stored == [k \in 1..Min(NumSaved, Size) |-> Rec(NumSaved - Min(NumSaved, Size) + k)]

\* The records the caller finds now behind the pointers of the result it holds.
Held == [k \in 1..Len(hptr) |-> buffer[hptr[k]]]

\* A QueryEvents call is about to return.
Returning == qpc \in {"ret", "retEmpty"}

\* C11: on a quiescent full store holding r1..rN, one SaveEvent(x) changes what
\* a match-all query returns to r2..rN,x: only the oldest record disappears and
\* the others keep their values and their order.
C11_FifoEvictionStep ==
    (/\ qpc = "ret" /\ qctx = "live" /\ MatchAll(qfilter)
     /\ herr = "nil" /\ MatchAll(hfilter)
     /\ hsaved >= Size /\ NumSaved = hsaved + 1)
        => (Len(hval) = Size /\ Returned = Tail(hval) \o <<Rec(NumSaved)>>)

\* C11 witness: a match-all query is about to return on a full store, one save
\* after a match-all query that returned the N records of the full store.
C11_Witness ==
    /\ qpc = "ret" /\ qctx = "live" /\ MatchAll(qfilter)
    /\ herr = "nil" /\ MatchAll(hfilter)
    /\ hsaved >= Size /\ NumSaved = hsaved + 1
    /\ Len(hval) = Size /\ Len(qres) = Size

\* C12: with calls made one at a time, for any filter and any occupancy, the
\* records a query returns are saved records in strictly increasing insertion order.
C12_OrderProperty ==
    Returning =>
        /\ \A k \in 1..Len(qres) : Returned[k] \in Saved
        /\ \A j, k \in 1..Len(qres) : j < k => Returned[j].id < Returned[k].id

\* C12 witness: a query with a kind filter is about to return two records from
\* a store that has wrapped and whose oldest record is not in slot 0.
C12_Witness ==
    /\ qpc = "ret"
    /\ qfilter.kinds # {}
    /\ NumSaved > Size /\ head # 0
    /\ Len(qres) >= 2

\* C13: with calls made one at a time, on a store holding c records of which M
\* match, a query with limit L returns the min(L, M) oldest matches in insertion
\* order when L > 0, and all M matches when L is 0 or L >= c.
C13_LimitEnforcement ==
    Returning =>
        LET Match(e) == EventMatchesFilter(e, qfilter)
            matches == SelectSeq(Stored, Match)
            L == qfilter.limit
        IN  /\ L > 0 => Returned = SubSeq(matches, 1, Min(L, Len(matches)))
            /\ (L = 0 \/ L >= Len(Stored)) => Returned = matches

\* C13 witness: a query with limit 1 is about to return one record from a store
\* that holds two matching ones.
C13_Witness ==
    /\ qpc = "ret"
    /\ qfilter.limit = 1 /\ qfilter.kinds = {}
    /\ NumSaved >= 2
    /\ Len(qres) = 1

\* C14: a QueryEvents call made with a context already canceled returns the
\* cancellation error and no result, whatever the store holds, nothing included.
C14_Cancellation ==
    [][(Returning /\ qpc' = "idle" /\ qctx = "canceled")
          => (herr' = "canceled" /\ hptr' = <<>>)]_vars

\* C15: SaveEvent(nil) returns an error and leaves head, count and every slot
\* as they were; SaveEvent with a record returns no error.
C15_InvalidInput ==
    [][\A w \in Writers :
          /\ (wpc[w] = "nil" \/ wpc'[w] = "nil") => UNCHANGED <<buffer, head, count>>
          /\ (wpc[w] = "nil" /\ wpc'[w] = "idle") => wret' = "error"
          /\ (wpc[w] \notin {"nil", "idle"} /\ wpc'[w] = "idle") => wret' = "nil"]_vars

\* C15 witness: SaveEvent(nil) has returned its error on a store that holds
\* records and has wrapped.
C15_Witness ==
    /\ Quiescent
    /\ wret = "error"
    /\ NumSaved > Size
    /\ count = Size

\* C16: a store constructed with capacity 0 or less is never handed back: no
\* SaveEvent or QueryEvents call is ever executed on one.
C16_InvalidConfiguration ==
    cap <= 0 => Quiescent

\* C17: size and the length of the slot array keep the value construction gave
\* them, whatever calls of SaveEvent, QueryEvents and Init and whatever
\* assignments to MaxLimit are made.
C17_FixedCapacity ==
    ~panicked => (size = cap /\ DOMAIN buffer = 0..(cap - 1))

\* C18: the records of a result a caller holds keep the values they had when
\* the call returned, whatever SaveEvent calls have been made since.
C18_ResultStability ==
    WritersIdle => Held = hval

\* C19: what a query returns carries the tag values its records had when they
\* were saved, whatever the caller has done to those records since.
C19_CopyOnAccept ==
    qpc = "ret" => \A k \in 1..Len(qres) :
        Returned[k].tags # 0 => tagval[Returned[k].tags] = TestTag

\* C20: two queries with the same filter and no SaveEvent between them return
\* the same records in the same order, and no step of a query changes head,
\* count or a slot.
C20_Idempotence ==
    /\ []((/\ Returning /\ qctx = "live" /\ herr = "nil"
           /\ hfilter = qfilter /\ hsaved = NumSaved)
              => (qres = hptr /\ Returned = hval))
    /\ [][(qpc # "idle" \/ qpc' # "idle") => UNCHANGED <<buffer, head, count>>]_vars

\* C20 witness: a query is about to return two records for the second time in
\* a row, from a store that has wrapped.
C20_Witness ==
    /\ qpc = "ret" /\ qctx = "live" /\ herr = "nil"
    /\ hfilter = qfilter /\ hsaved = NumSaved
    /\ NumSaved > Size
    /\ Len(hptr) = Size /\ Len(qres) = Size

\* field starts with v.
StartsWith(field, v) ==
    Len(v) <= Len(field) /\ \A i \in 1..Len(v) : field[i] = v[i]

\* The identifier rule of the filter rules: an empty set of allowed values, or
\* some allowed value equal to the field or shorter than the canonical length
\* and a prefix of it.
RefValueClause(field, allowed) ==
    allowed = {} \/ \E v \in allowed : v = field \/ (Len(v) < IdLen /\ StartsWith(field, v))

\* The kind rule.
RefKindClause(evt, filter) == filter.Kinds = {} \/ \E k \in filter.Kinds : k = evt.Kind

\* The tag rule: every name of the mapping has a tag of the record with that
\* name and a second element among the values allowed for it.
RefTagClause(evt, filter) ==
    \A name \in DOMAIN filter.Tags :
        \E k \in DOMAIN evt.Tags :
            /\ Len(evt.Tags[k]) >= 2
            /\ evt.Tags[k][1] = name
            /\ evt.Tags[k][2] \in filter.Tags[name]

\* The timestamp rule, both bounds inclusive.
RefTimeClause(evt, filter) ==
    /\ \A t \in filter.Since : evt.CreatedAt >= t
    /\ \A t \in filter.Until : evt.CreatedAt =< t

\* eventMatchesFilter has returned true.
Accepted == pres = "true"

\* C23: eventMatchesFilter(R, F) is the conjunction of the five clauses of the
\* filter rules, an empty or absent clause counting as satisfied; the empty
\* filter matches every record.
C23_FilterComposition ==
    pres # "none" =>
        /\ Accepted <=> (/\ RefValueClause(pevt.ID, pfilter.IDs)
                         /\ RefValueClause(pevt.PubKey, pfilter.Authors)
                         /\ RefKindClause(pevt, pfilter)
                         /\ RefTagClause(pevt, pfilter)
                         /\ RefTimeClause(pevt, pfilter))
        /\ pfilter = EmptyFilter => Accepted

\* C24: eventMatchesFilter returns true only if, for every name of the
\* filter's tag mapping, an empty set of allowed values included, the record
\* has a tag with that name whose second element is among the allowed values.
C24_TagClause ==
    Accepted => RefTagClause(pevt, pfilter)

\* C25: the identifier (author) clause holds iff the allowed set is empty or
\* some allowed value equals the field or is shorter than 64 characters and a
\* prefix of it: the empty string matches every record, a value of 64
\* characters or more matches by equality only, a value longer than the field
\* never matches.
C25_IdAuthorClauses ==
    pres # "none" =>
        /\ Accepted <=>
              (/\ RefValueClause(pevt.ID, pfilter.IDs)
               /\ RefValueClause(pevt.PubKey, pfilter.Authors)
               /\ eventMatchesFilter(pevt, [pfilter EXCEPT !.IDs = {}, !.Authors = {}], porder))
        /\ <<>> \in pfilter.IDs => IDsClause(pevt, pfilter)
        /\ \A v \in pfilter.IDs \cup pfilter.Authors : \A f \in {pevt.ID, pevt.PubKey} :
              /\ (Len(v) >= IdLen /\ MatchesValue(f, v)) => v = f
              /\ Len(v) > Len(f) => ~MatchesValue(f, v)

\* C25 witness: a record with an identifier of the canonical length has been
\* accepted for a prefix one character shorter.
C25_Witness ==
    /\ Accepted
    /\ pfilter.IDs = {Rep("a", IdLen - 1)}
    /\ Len(pevt.ID) = IdLen

\* C26: with calls made one at a time, a query with a non-empty kind set
\* returns no record of a kind outside the set and, up to the limit, every
\* stored record of a kind in the set.
C26_KindClause ==
    (Returning /\ qfilter.kinds # {}) =>
        LET wanted == {k \in 1..Len(Stored) : Stored[k].kind \in qfilter.kinds}
        IN  /\ \A k \in 1..Len(qres) : Returned[k].kind \in qfilter.kinds
            /\ Len(qres) = IF qfilter.limit > 0
                             THEN Min(qfilter.limit, Cardinality(wanted))
                             ELSE Cardinality(wanted)
            /\ qfilter.limit = 0 =>
                  {Returned[k] : k \in 1..Len(qres)} = {Stored[k] : k \in wanted}

\* C26 witness: a query with a kind set and no limit is about to return some
\* of the records of a store that has wrapped, and not all of them.
C26_Witness ==
    /\ qpc = "ret"
    /\ qfilter.kinds # {} /\ qfilter.limit = 0
    /\ NumSaved > Size
    /\ Len(qres) >= 1 /\ Len(qres) < Size

\* C27: a record is rejected on its timestamp iff Since is present and
\* CreatedAt < Since, or Until is present and CreatedAt > Until; both bounds
\* are inclusive, and with Since > Until no record matches.
C27_TimestampClauses ==
    pres # "none" =>
        /\ Accepted <=>
              (/\ RefTimeClause(pevt, pfilter)
               /\ eventMatchesFilter(pevt, [pfilter EXCEPT !.Since = {}, !.Until = {}], porder))
        /\ (\E t \in pfilter.Since : \E u \in pfilter.Until : t > u) => ~Accepted

\* C27 witness: a record created at the instant that is both Since and Until
\* has been accepted.
C27_Witness ==
    /\ Accepted
    /\ pfilter.Since = {1} /\ pfilter.Until = {1}
    /\ pevt.CreatedAt = 1

\* C28: for a given record and filter eventMatchesFilter returns the same
\* value whatever the order in which the names of the tag mapping are
\* visited, and the call changes neither the record, the filter nor the store.
C28_Determinism ==
    /\ [](pres # "none" =>
            \A o \in Orders(pfilter.Tags) : eventMatchesFilter(pevt, pfilter, o) = Accepted)
    /\ [][pres' # pres => UNCHANGED <<pevt, pfilter, buffer, head, count>>]_vars

\* C28 witness: a record has been rejected by a filter with two tag names, the
\* first name visited being one the record satisfies.
C28_Witness ==
    /\ pres = "false"
    /\ Len(porder) = 2
    /\ TagFound(pevt, porder[1], pfilter.Tags[porder[1]])
    /\ IDsClause(pevt, pfilter) /\ AuthorsClause(pevt, pfilter) /\ KindsClause(pevt, pfilter)

\* The ephemeral kinds.
RefEphemeral(kind) == kind \in 20000..29999

\* The replaceable and the addressable kinds.
RefReplaced(kind) == kind \in {0, 3} \/ kind \in 10000..19999 \/ kind \in 30000..39999

\* C29: Save hands an event to the ephemeral store iff its kind is ephemeral;
\* an ephemeral event never reaches the durable store, any other event goes to
\* ReplaceEvent (replaceable, addressable) or SaveEvent of the durable store and
\* never to the ephemeral store; the error of the store used is returned.
C29_IngestionRouting ==
    /\ [](/\ \A s \in DOMAIN buffer : buffer[s] # ZeroEvent => RefEphemeral(buffer[s].kind)
          /\ \A k \in DOMAIN db : ~RefEphemeral(db[k].kind))
    /\ [][nextId' # nextId =>
            IF RefEphemeral(kevt'.kind)
              THEN /\ buffer'[head] = kevt'
                   /\ db' = db /\ dbcall' = "none"
                   /\ kret' = wret'
              ELSE /\ UNCHANGED <<buffer, head, count>>
                   /\ dbcall' = IF RefReplaced(kevt'.kind) THEN "ReplaceEvent" ELSE "SaveEvent"
                   /\ kret' = dberr'
                   /\ kret' = "nil" => db'[Len(db')] = kevt']_vars

\* C29 witness: the last ephemeral kind has just been saved to a full ephemeral
\* store while the durable store holds records too.
C29_Witness ==
    /\ kevt.kind = 29999 /\ kret = "nil"
    /\ count = Size
    /\ \E s \in DOMAIN buffer : buffer[s] = kevt
    /\ Len(db) >= 1

\* The records of the ephemeral store, oldest first, when no call is in progress.
RingOldestFirst == [k \in 1..count |-> buffer[(head + size - count + k - 1) % size]]

\* The matches of a filter in the ephemeral store, oldest first, up to its limit.
RefEphemeralMatches(filter) ==
    LET Match(e) == filter.kinds = {} \/ e.kind \in filter.kinds
        m == SelectSeq(RingOldestFirst, Match)
    IN  IF filter.limit > 0 /\ filter.limit < Len(m) THEN SubSeq(m, 1, filter.limit) ELSE m

RECURSIVE RefMerge(_)
\* For each filter in turn, the matches of db followed by those of the ephemeral store.
RefMerge(filters) ==
    IF filters = <<>> THEN <<>>
    ELSE DbQueryEvents(Head(filters)) \o RefEphemeralMatches(Head(filters))
            \o RefMerge(Tail(filters))

\* C30: Query returns, for its filters in order, the matches of the durable
\* store followed by those of the ephemeral store, the latter for every filter,
\* with or without kinds, and with nothing removed as a duplicate.
C30_QueryMerge ==
    (kfilters # <<>> /\ kerr = "nil" /\ kctx = "live") => kres = RefMerge(kfilters)

\* C30 witness: Query has returned, for the same filter given twice, every
\* record of both stores twice.
C30_Witness ==
    /\ kfilters = <<FilterAll, FilterAll>> /\ kerr = "nil" /\ kctx = "live"
    /\ Len(db) >= 1 /\ count >= 1
    /\ Len(kres) = 2 * (Len(db) + count)

\* The number of steps writer w has still to take in its SaveEvent call, at most.
WriterRank(w) ==
    CASE wpc[w] = "write" -> 4
      [] wpc[w] = "storeHead" -> 3
      [] wpc[w] = "addCount" -> 2
      [] wpc[w] = "cas" -> 1
      [] OTHER -> 0

\* The number of steps the reader has still to take in its QueryEvents call,
\* at most: a count observed while SaveEvent calls are in progress can exceed
\* the capacity by the number of those calls.
ReaderRank ==
    CASE qpc = "loadCount" -> Size + NumWriters + 2
      [] qpc = "scan" -> qcount - qi + 1
      [] qpc \in {"ret", "retEmpty"} -> 1
      [] OTHER -> 0

HolderStep ==
    \/ \E w \in Writers : mlock = <<"w", w>> /\ (MSaveWrite(w) \/ MSaveCount(w) \/ MSaveUnlock(w))
    \/ \E q \in Queries : mlock = <<"q", q>> /\ (MQueryCopy(q) \/ MQueryUnlock(q))

\* The number of steps the holder of the mutex is from releasing it.
HolderRank ==
    IF mlock = <<>> THEN 0
    ELSE IF mlock[1] = "w"
           THEN CASE mwpc[mlock[2]] = "write" -> 3
                  [] mwpc[mlock[2]] = "count" -> 2
                  [] OTHER -> 1
           ELSE CASE gpc[mlock[2]] = "copy" -> 2
                  [] OTHER -> 1

\* C22: the mutex of the CircularBuffer is held only by a SaveEvent call that
\* is updating the ring or by a query goroutine that is copying the matches,
\* never by a goroutine that is sending on its channel.  So, whatever the
\* consumers of the channels do, the holder of the mutex can always take its
\* next step and releases the mutex within three steps of its own, no other
\* goroutine's step takes the mutex from it or sets it back, and a free mutex
\* can be taken by any SaveEvent call or query goroutine waiting for it.
C22_LockScope ==
    /\ [](/\ \A q \in Queries : mlock = <<"q", q>> <=> gpc[q] \in {"copy", "unlock"}
          /\ \A w \in Writers : mlock = <<"w", w>> <=> mwpc[w] \in {"write", "count", "unlock"}
          /\ mlock # <<>> => ENABLED HolderStep
          /\ mlock = <<>> =>
                /\ \A w \in Writers : mwpc[w] = "lock" => ENABLED MSaveLock(w)
                /\ \A q \in Queries : gpc[q] = "lock" => ENABLED MQueryLock(q))
    /\ [][/\ HolderStep => HolderRank' < HolderRank
          /\ (mlock # <<>> /\ ~HolderStep) => (mlock' = mlock /\ HolderRank' = HolderRank)]_vars

\* C22 witness: a SaveEvent call has gone through its critical section while a
\* query goroutine is blocked sending the first of its records and another
\* query is waiting for the lock.
C22_Witness ==
    /\ gpc["q1"] = "send" /\ gi["q1"] = 0 /\ Len(gmatch["q1"]) >= 1
    /\ gpc["q2"] = "lock"
    /\ \E w \in Writers : mwpc[w] = "unlock"
    /\ mcount > Len(gmatch["q1"])

\* C31: while goroutines run SaveEvent, a QueryEvents call with a live context
\* returns no error, a result whose entries all point to slots of the ring (none
\* is nil) and, for a filter with a positive limit, at most that many entries;
\* head, the slot a SaveEvent writes and the slot a scan reads are always
\* within 0..N-1.
C31_QueryRobustness ==
    /\ head \in Slots
    /\ \A w \in Writers : wpc[w] = "write" => whead[w] \in Slots
    /\ qpc = "scan" => Pos(qhead, qcount, qi) \in Slots
    /\ (Returning /\ qctx = "live") =>
          /\ ~Canceled
          /\ \A k \in 1..Len(qres) : qres[k] \in Slots
          /\ qfilter.limit > 0 => Len(qres) <= qfilter.limit

\* C31 witness: a query with limit 1 that observed a count above the capacity
\* is about to return one record while a SaveEvent is in progress.
C31_Witness ==
    /\ qpc = "ret" /\ qctx = "live"
    /\ qfilter = FilterLimitOne
    /\ qcount > Size
    /\ Len(qres) = 1
    /\ ~WritersIdle

\* C32: on a store that never becomes full, with one goroutine saving, a
\* match-all query without limit that observed count c reads at each step a
\* completely written slot and returns the first c records saved, in the order
\* they were saved.
C32_PrefixVisibility ==
    /\ count < size /\ \A w \in Writers : wpc[w] # "cas"
    /\ qpc = "scan" => buffer[Pos(qhead, qcount, qi)] = Rec(qi + 1)
    /\ (Returning /\ MatchAll(qfilter)) => Returned = [k \in 1..qcount |-> Rec(k)]

\* C32 witness: a match-all query that observed two records is about to return
\* them while the writer has copied a part of the third into its slot.
C32_Witness ==
    /\ qpc = "ret" /\ MatchAll(qfilter)
    /\ qcount = 2 /\ Len(qres) = 2
    /\ wpc[1] = "write" /\ wdone[1] # {} /\ wevt[1] = Rec(3)

\* C33: a SaveEvent call advances head past its slot before it copies the
\* record into the slot, and raises count after the copy; so, with one writer
\* on a full store, the first record of a query's result is never the record
\* of a SaveEvent call that has not returned yet.
C33_PutStepOrder ==
    /\ \A w \in Writers :
          /\ (wpc[w] = "write" /\ wdone[w] # {}) => head = (whead[w] + 1) % size
          /\ wpc[w] \in {"write", "storeHead"} => count <= Min(wevt[w].id - 1, size)
    /\ (qpc = "ret" /\ qcount >= size /\ Len(qres) >= 1 /\ wpc[1] # "idle")
          => Returned[1].id # wevt[1].id

\* C34: given the same calls one at a time, the CircularBuffer and the
\* AtomicCircularBuffer2 have equal head, count and slots, the tail of the
\* first is (head - count) mod N, and the records read from the channel of a
\* query of the first up to its close are those the same query of the second
\* returned, in the same order.
C34_SequentialEquivalence ==
    /\ (BothIdle /\ InStep) =>
          /\ mhead = head
          /\ mcount = count
          /\ mbuffer = buffer
          /\ mtail = (head + Size - count) % Size
    /\ gpc["q1"] = "closed" => grecv["q1"] = hval

\* C34 witness: the channel of a query with a kind filter has been read to its
\* close on stores that have wrapped, and it delivered a record.
C34_Witness ==
    /\ gpc["q1"] = "closed"
    /\ gfilter["q1"].kinds # {}
    /\ nextId - 1 > Size /\ mtail # 0
    /\ Len(grecv["q1"]) >= 1

\* C35: whenever the mutex of the CircularBuffer is free, count is within
\* 0..size, head and tail are slot indices, tail = (head - count) mod size, and
\* the count slots from tail on hold the last count records whose SaveEvent
\* took the lock, in the order in which they took it.
C35_CoarseLockInvariant ==
    mlock = <<>> =>
        /\ mcount \in 0..Size
        /\ mhead \in Slots
        /\ mtail \in Slots
        /\ mtail = (mhead + Size - mcount) % Size
        /\ mcount = Min(mnext - 1, Size)
        /\ \A k \in 1..mcount :
              mbuffer[(mtail + k - 1) % Size] = Rec(mnext - 1 - mcount + k)

\* C35 witness: the mutex is free on a store that has wrapped, while a
\* SaveEvent call waits for it and a query goroutine is sending.
C35_Witness ==
    /\ mlock = <<>>
    /\ mnext - 1 > Size /\ mtail # 0
    /\ \E w \in Writers : mwpc[w] = "lock"
    /\ \E q \in Queries : gpc[q] = "send" /\ gi[q] < Len(gmatch[q])

\* C36: in AtomicCircularBuffer, when all SaveEvent calls have returned on a
\* store that has wrapped, tail = head and count = size, tail has advanced once
\* for every call past the capacity (no update of it is lost), and a match-all
\* query made then returns first the record in the slot at head, the oldest.
C36_ExplicitTail ==
    /\ (WritersIdle /\ NumSaved > Size) =>
          /\ tail = head
          /\ count = size
          /\ tail = (NumSaved - Size) % Size
    /\ (qpc = "ret" /\ MatchAll(qfilter) /\ NumSaved > Size) =>
          (Len(qres) = Size /\ qres[1] = buffer[head])

\* The records the CircularBuffer holds, oldest first.
MStored == [k \in 1..mcount |-> mbuffer[(mtail + k - 1) % Size]]

\* The matches of a filter among them, in insertion order, up to its limit.
MMatches(filter) ==
    LET Match(e) == EventMatchesFilter(e, filter)
        all == SelectSeq(MStored, Match)
    IN  SubSeq(all, 1, Min(Len(all), Limit(filter, mcount)))

\* The goroutine of a query has been started and has not closed its channel.
Active(q) == gpc[q] \in {"lock", "copy", "unlock", "send"}

\* C37: under fair scheduling the channel of a query of the CircularBuffer is
\* closed eventually once its context is canceled, and also if its consumer
\* keeps receiving; what the consumer has received is at any time a prefix of
\* the matches in insertion order, and nothing is delivered on a closed channel
\* (the goroutine closes it as soon as it observes the cancellation).
C37_ChannelLiveness ==
    /\ [](/\ gpc["q1"] = "unlock" => gmatch["q1"] = MMatches(gfilter["q1"])
          /\ gpc["q1"] \in {"send", "closed"} =>
                /\ gi["q1"] <= Len(gmatch["q1"])
                /\ grecv["q1"] = SubSeq(gmatch["q1"], 1, gi["q1"])
                /\ \A j, k \in 1..Len(gmatch["q1"]) :
                      j < k => gmatch["q1"][j].id < gmatch["q1"][k].id)
    /\ [][/\ gpc["q1"] = "closed" /\ gpc'["q1"] = "closed" => grecv'["q1"] = grecv["q1"]
          /\ (gpc["q1"] = "send" /\ gctx["q1"] = "canceled" /\ gpc'["q1"] = "closed")
                => grecv'["q1"] = grecv["q1"]]_vars
    /\ (Active("q1") /\ gctx["q1"] = "canceled") ~> gpc["q1"] = "closed"
    /\ WF_vars(MQueryDeliver("q1")) => (Active("q1") ~> gpc["q1"] = "closed")

\* C37 witness: the goroutine has observed the cancellation and closed the
\* channel after one of two matches had been delivered, on a store that has
\* wrapped.
C37_Witness ==
    /\ gpc["q1"] = "closed" /\ gctx["q1"] = "canceled"
    /\ Len(gmatch["q1"]) = 2 /\ gi["q1"] = 1
    /\ mnext - 1 > Size

====
